---- MODULE Spec2Model ----
(***************************************************************************)
(* Model of the adaptive scraping core of smart_shopping:                  *)
(*   - the strategy store (web_scraper_mcp/db_cache.py) on top of the      *)
(*     scraping_instructions table (backend/db/models.py);                 *)
(*   - the serialisation of a ScrapingStrategy (web_scraper_mcp/strategy.py)*)
(*   - scrape_page (web_scraper_mcp/scraper.py), one step per await.       *)
(*                                                                         *)
(* Optional values (Python's None) are sequences of length 0 or 1.         *)
(* Time is counted in whole days.  A success rate r is the integer         *)
(* r * Scale, which is exact for MaxUpdates EMA updates after a save.      *)
(***************************************************************************)
EXTENDS Integers, Sequences, FiniteSets, TLC

VARIABLES
    table,      \* rows of scraping_instructions
    nextId,     \* autoincrement counter of the table
    now,        \* the clock, in days
    lastSaved,  \* history: domain -> the strategy of the last committed save
    outcomes,   \* history: domain -> the outcomes recorded since that save
    lastOp,     \* history: the last call of the store API made by a caller
                \* (before: the row a save found)
    pc,         \* scrape -> position in scrape_page
    url,        \* scrape -> the url argument
    cached,     \* scrape -> local `cached`
    strategy,   \* scrape -> local `strategy`
    products,   \* scrape -> local `products`
    record,     \* scrape -> the row held by the open database session
    result,     \* scrape -> value returned to the caller
    raised,     \* scrape -> TRUE when an exception left scrape_page
    idleTimeout,\* scrape -> TRUE when wait_for_load_state timed out
    log,        \* scrape -> history of the calls made by scrape_page
    startTable, \* scrape -> history: the table when scrape_page was called
    page,       \* the page handed to discover_strategy / _extract_with_strategy
    criteria,   \* the criteria argument of that call
    dpc,        \* position in discover_strategy
    dcand,      \* index of the container candidate discover_strategy is at
    discovered, \* value returned by discover_strategy
    xstrategy,  \* the strategy argument of _extract_with_strategy
    base_url,   \* the base_url argument of _extract_with_strategy
    xproducts,  \* value returned by _extract_with_strategy
    results,    \* the argument of aggregate_sellers and of format_results
    merged,     \* value returned by aggregate_sellers
    formatted,  \* value returned by format_results
    ptext,      \* the argument of parse_price
    parsed,     \* value returned by parse_price
    query,      \* the query argument of process_query
    search_results, \* what search_products returned to process_query
    scrape_calls    \* history: the calls of scrape_page made by process_query

\* The state of the calls of discovery, extraction and reconciliation that
\* are run on their own.
pureVars == <<page, criteria, dpc, dcand, discovered, xstrategy, base_url,
              xproducts, results, merged, formatted, ptext, parsed, query,
              search_results, scrape_calls>>

vars == <<table, nextId, now, lastSaved, outcomes, lastOp, pc, url, cached, strategy,
          products, record, result, raised, idleTimeout, log, startTable,
          pureVars>>

scrapeVars == <<pc, url, cached, strategy, products, record, result, raised,
                idleTimeout, log, startTable>>

----------------------------------------------------------------------------
(* Bounds *)

MaxUpdates == 3     \* EMA updates of the rows since their last save
MaxNow == 31        \* last day of the clock
MaxRecords == 2     \* records one extraction call can return
NumScrapes == 2     \* scrape_page tasks
MaxContainers == 4  \* elements a container selector matches on a small page
MaxResults == 3     \* records in one call of aggregate_sellers
MaxPriceLen == 4    \* characters of the argument of parse_price

----------------------------------------------------------------------------
(* Program constants *)

_CACHE_TTL_DAYS == 30
EmaAlphaTenths == 3             \* _EMA_ALPHA = 0.3
Scale == 10 ^ MaxUpdates        \* the rate 1.0
_MIN_SUCCESS_RATE == Scale \div 2

None == <<>>
Some(x) == <<x>>

----------------------------------------------------------------------------
(* ScrapingStrategy and its serialisation *)

FieldNames == <<"product_container", "name_selector", "price_selector",
                "image_selector", "url_selector", "model_selector",
                "brand_selector", "mpn_selector", "currency_hint", "version",
                "discovery_method", "criteria_selectors">>

FieldSet == {FieldNames[i] : i \in 1..Len(FieldNames)}

\* The dataclass fields with the defaults of the constructor
\* (product_container has none).
Defaults ==
    [product_container  |-> "",
     name_selector      |-> "",
     price_selector     |-> "",
     image_selector     |-> "",
     url_selector       |-> "",
     model_selector     |-> "",
     brand_selector     |-> "",
     mpn_selector       |-> "",
     currency_hint      |-> "",
     version            |-> 1,
     discovery_method   |-> "css_candidates",
     criteria_selectors |-> <<>>]

\* json.dumps(asdict(self)): the text is the list of the members, in field
\* order, each a <<key, value>> pair.
to_json(s) == [i \in 1..Len(FieldNames) |-> <<FieldNames[i], s[FieldNames[i]]>>]

\* json.loads(data)[k]: the value of the last member of the text with key
\* k, or the default when the text has no such member.
MemberOr(data, k, default) ==
    IF \E i \in 1..Len(data) : data[i][1] = k
      THEN data[CHOOSE i \in 1..Len(data) :
                   /\ data[i][1] = k
                   /\ \A j \in 1..Len(data) : data[j][1] = k => j <= i][2]
      ELSE default

\* from_json raises when json.loads does (on a text that is not a JSON
\* object: here a text with a member that is not a <<key, value>> pair),
\* and when the text has no product_container: the constructor requires it.
FromJsonRaises(data) ==
    \/ \E i \in 1..Len(data) : Len(data[i]) # 2
    \/ \A i \in 1..Len(data) : data[i][1] # "product_container"

\* from_json: the known fields of the parsed text, the others defaulted.
from_json(data) == [k \in FieldSet |-> MemberOr(data, k, Defaults[k])]

\* A strategy as discover_strategy assembles it from the CSS candidates.
StrategyCss ==
    [Defaults EXCEPT
        !.product_container  = ".product-card",
        !.name_selector      = "h2 a",
        !.price_selector     = "[class*='price']",
        !.image_selector     = "img",
        !.url_selector       = "a[href]",
        !.currency_hint      = "USD",
        !.discovery_method   = "css_candidates",
        !.criteria_selectors = << <<"noise_level", "[class*='noise_level']">> >>]

\* A strategy as _discover_by_price_pattern assembles it.
StrategyPrice ==
    [Defaults EXCEPT
        !.product_container = "div.item",
        !.name_selector     = "a",
        !.price_selector    = "span",
        !.discovery_method  = "price_pattern"]

Strategies == {StrategyCss, StrategyPrice}

----------------------------------------------------------------------------
(* URLs and domains.  A host is the sequence of its labels. *)

Urls == { [host |-> <<"www", "shop", "example", "com">>, path |-> "/search"],
          [host |-> <<"shop", "example", "com">>, path |-> "/products"],
          [host |-> <<"ksp", "co", "il">>, path |-> "/product/1"] }

extract_domain(u) ==
    IF Len(u.host) > 0 /\ Head(u.host) = "www" THEN Tail(u.host) ELSE u.host

Domains == {extract_domain(u) : u \in Urls}

----------------------------------------------------------------------------
(* The scraping_instructions table and the store functions *)

\* select(ScrapingInstruction).where(domain == d) ... scalar_one_or_none()
SelectRecord(tbl, d) ==
    IF \E r \in tbl : r.domain = d
      THEN Some(CHOOSE r \in tbl : r.domain = d)
      ELSE None

\* Expired with the age compared by >= instead of >.
ExpiredAtTtl(row, t) == t - row.created_at >= _CACHE_TTL_DAYS

\* The TTL test of get_cached_strategy.
Expired(row, t) == t - row.created_at > _CACHE_TTL_DAYS

\* LowRate with the threshold at 0.3.
LowRateLenient(row) == 10 * row.success_rate < 3 * Scale

\* The success-rate test of get_cached_strategy.
LowRate(row) == row.success_rate < _MIN_SUCCESS_RATE

\* get_cached_strategy raises: the row passes the TTL and the rate tests and
\* from_json raises on its text (line 52, outside any try).
GetCachedRaises(tbl, d, t) ==
    LET found == SelectRecord(tbl, d) IN
    /\ found # None
    /\ ~Expired(found[1], t)
    /\ ~LowRate(found[1])
    /\ FromJsonRaises(found[1].strategy_json)

get_cached_strategy(tbl, d, t) ==
    LET found == SelectRecord(tbl, d) IN
    IF found = None THEN None
    ELSE IF Expired(found[1], t) THEN None
    ELSE IF LowRate(found[1]) THEN None
    ELSE Some(from_json(found[1].strategy_json))

\* Ema with the weights of the outcome and of the old rate exchanged.
EmaSwapped(rate, success) ==
    ((10 - EmaAlphaTenths) * (IF success THEN Scale ELSE 0)
        + EmaAlphaTenths * rate) \div 10

\* The exponential moving average of update_success_rate.
Ema(rate, success) ==
    (EmaAlphaTenths * (IF success THEN Scale ELSE 0)
        + (10 - EmaAlphaTenths) * rate) \div 10

\* session.commit() of a loaded row: the UPDATE writes the attributes whose
\* value differs from the loaded one, and updated_at.
CommitUpdate(tbl, loaded, new, t) ==
    { IF r.id # loaded.id THEN r
      ELSE [r EXCEPT
              !.strategy_json = IF new.strategy_json # loaded.strategy_json
                                  THEN new.strategy_json ELSE @,
              !.success_rate  = IF new.success_rate # loaded.success_rate
                                  THEN new.success_rate ELSE @,
              !.updated_at    = t]
      : r \in tbl }

\* The unique index on domain: an INSERT of a domain that has a row fails.
InsertRaises(tbl, d) == \E r \in tbl : r.domain = d

\* session.add(record); session.commit() of a new row.
CommitInsert(tbl, nid, d, s, t) ==
    tbl \cup { [id |-> nid, domain |-> d, strategy_json |-> to_json(s),
                success_rate |-> Scale, created_at |-> t, updated_at |-> t] }

\* SaveCommit whose update branch leaves success_rate as it was.
SaveCommitKeepsRate(tbl, found, nid, d, s, t) ==
    IF found # None
      THEN CommitUpdate(tbl, found[1],
                        [found[1] EXCEPT !.strategy_json = to_json(s)], t)
      ELSE IF InsertRaises(tbl, d) THEN tbl
      ELSE CommitInsert(tbl, nid, d, s, t)

\* The part of save_strategy after the select: found is the selected row.
SaveCommit(tbl, found, nid, d, s, t) ==
    IF found # None
      THEN CommitUpdate(tbl, found[1],
                        [found[1] EXCEPT !.strategy_json = to_json(s),
                                         !.success_rate = Scale], t)
      ELSE IF InsertRaises(tbl, d) THEN tbl
      ELSE CommitInsert(tbl, nid, d, s, t)

SaveNextId(tbl, found, nid, d) ==
    IF found = None /\ ~InsertRaises(tbl, d) THEN nid + 1 ELSE nid

\* UpdateCommit that never writes the new rate.
UpdateCommitLost(tbl, found, success, t) == tbl

\* The part of update_success_rate after the select.
UpdateCommit(tbl, found, success, t) ==
    IF found = None THEN tbl
    ELSE CommitUpdate(tbl, found[1],
                      [found[1] EXCEPT
                          !.success_rate = Ema(found[1].success_rate, success)],
                      t)

RECURSIVE SumLen(_, _)
SumLen(f, S) ==
    IF S = {} THEN 0
    ELSE LET x == CHOOSE y \in S : TRUE
         IN  Len(f[x]) + SumLen(f, S \ {x})

\* One more EMA update keeps the updates since the saves within MaxUpdates.
CanUpdate(d) == SumLen(outcomes, DOMAIN outcomes) < MaxUpdates

\* The outcomes recorded for d after an update_success_rate that found
\* the row `found`.
Recorded(found, d, success) ==
    IF found = None THEN outcomes
    ELSE [outcomes EXCEPT ![d] = Append(@, success)]

----------------------------------------------------------------------------
(* Calls of the store API by a caller, each run to completion *)

NoOp == [op |-> "none", domain |-> <<>>, strategy |-> None, success |-> FALSE,
         result |-> None, before |-> None]

Load(d) ==
    /\ lastOp' = [op |-> "load", domain |-> d, strategy |-> None,
                  success |-> FALSE,
                  result |-> get_cached_strategy(table, d, now),
                  before |-> None]
    /\ UNCHANGED pureVars
    /\ UNCHANGED <<table, nextId, now, lastSaved, outcomes, scrapeVars>>

Save(d, s) ==
    LET found == SelectRecord(table, d) IN
    /\ table' = SaveCommit(table, found, nextId, d, s, now)
    /\ nextId' = SaveNextId(table, found, nextId, d)
    /\ lastSaved' = [lastSaved EXCEPT ![d] = Some(s)]
    /\ outcomes' = [outcomes EXCEPT ![d] = <<>>]
    /\ lastOp' = [op |-> "save", domain |-> d, strategy |-> Some(s),
                  success |-> FALSE, result |-> None, before |-> found]
    /\ UNCHANGED pureVars
    /\ UNCHANGED <<now, scrapeVars>>

RecordOutcome(d, success) ==
    /\ CanUpdate(d)
    /\ table' = UpdateCommit(table, SelectRecord(table, d), success, now)
    /\ outcomes' = Recorded(SelectRecord(table, d), d, success)
    /\ lastOp' = [op |-> "record_outcome", domain |-> d, strategy |-> None,
                  success |-> success, result |-> None, before |-> None]
    /\ UNCHANGED pureVars
    /\ UNCHANGED <<nextId, now, lastSaved, scrapeVars>>

Tick ==
    /\ \E d \in {_CACHE_TTL_DAYS, _CACHE_TTL_DAYS + 1} : now + d <= MaxNow /\ now' = now + d
    /\ UNCHANGED pureVars
    /\ UNCHANGED <<table, nextId, lastSaved, outcomes, lastOp, scrapeVars>>

Scrapes == 1..NumScrapes

\* An empty database, and no scrape called yet.
StoreIdle ==
    /\ table = {}
    /\ nextId = 1
    /\ now = 0
    /\ lastSaved = [d \in Domains |-> None]
    /\ outcomes = [d \in Domains |-> <<>>]
    /\ lastOp = NoOp
    /\ pc = [p \in Scrapes |-> "idle"]
    /\ url = [p \in Scrapes |-> CHOOSE u \in Urls : TRUE]
    /\ cached = [p \in Scrapes |-> None]
    /\ strategy = [p \in Scrapes |-> None]
    /\ products = [p \in Scrapes |-> <<>>]
    /\ record = [p \in Scrapes |-> None]
    /\ result = [p \in Scrapes |-> <<>>]
    /\ raised = [p \in Scrapes |-> FALSE]
    /\ idleTimeout = [p \in Scrapes |-> FALSE]
    /\ log = [p \in Scrapes |-> <<>>]
    /\ startTable = [p \in Scrapes |-> {}]

\* No call of discovery, extraction or reconciliation on its own.
LateIdle ==
    /\ formatted = None
    /\ ptext = <<>>
    /\ parsed = None
    /\ query = <<>>
    /\ search_results = <<>>
    /\ scrape_calls = None

PureIdle ==
    /\ page = <<>>
    /\ criteria = None
    /\ dpc = "idle"
    /\ dcand = 0
    /\ discovered = None
    /\ xstrategy = None
    /\ base_url = None
    /\ xproducts = None
    /\ results = <<>>
    /\ merged = None
    /\ LateIdle

Init == StoreIdle /\ PureIdle

NextStore ==
    \/ Tick
    \/ \E d \in Domains : Load(d)
    \/ \E d \in Domains, s \in Strategies : Save(d, s)
    \/ \E d \in Domains, success \in BOOLEAN : RecordOutcome(d, success)

SpecStore == Init /\ [][NextStore]_vars

----------------------------------------------------------------------------
(* scrape_page, one action per await *)

Event(call, s, success, n) ==
    [call |-> call, strategy |-> s, success |-> success, n |-> n]

Logged(p, e) == log' = [log EXCEPT ![p] = Append(@, e)]

\* The records one call of _extract_with_strategy returns: n records read
\* from the containers the strategy selects, each with the page's domain as
\* its seller.  k numbers the extraction calls of the scrape.
Extracted(d, s, n, k) ==
    [i \in 1..n |-> [container |-> s.product_container, index |-> i,
                     seller |-> d, extraction |-> k]]

\* scrape_page is called with url u (line 111).
StartScrape(p, u) ==
    /\ pc[p] \in {"idle", "done"}
    /\ CanUpdate(extract_domain(u))
    /\ pc' = [pc EXCEPT ![p] = "goto"]
    /\ url' = [url EXCEPT ![p] = u]
    /\ cached' = [cached EXCEPT ![p] = None]
    /\ strategy' = [strategy EXCEPT ![p] = None]
    /\ products' = [products EXCEPT ![p] = <<>>]
    /\ record' = [record EXCEPT ![p] = None]
    /\ result' = [result EXCEPT ![p] = <<>>]
    /\ raised' = [raised EXCEPT ![p] = FALSE]
    /\ idleTimeout' = [idleTimeout EXCEPT ![p] = FALSE]
    /\ log' = [log EXCEPT ![p] = <<>>]
    /\ startTable' = [startTable EXCEPT ![p] = table]
    /\ UNCHANGED pureVars
    /\ UNCHANGED <<table, nextId, now, lastSaved, outcomes, lastOp>>

\* Goto that swallows the exception of page.goto and goes on.
GotoSwallows(p) ==
    /\ pc[p] = "goto"
    /\ \E ok \in BOOLEAN : Logged(p, Event("goto", None, ok, 0))
    /\ pc' = [pc EXCEPT ![p] = "wait_idle"]
    /\ UNCHANGED pureVars
    /\ UNCHANGED <<table, nextId, now, lastSaved, outcomes, lastOp, url, cached,
                   strategy, products, record, result, raised, idleTimeout,
                   startTable>>

\* page.goto (lines 114-118): on an exception scrape_page returns [].
Goto(p) ==
    /\ pc[p] = "goto"
    /\ \E ok \in BOOLEAN :
          /\ Logged(p, Event("goto", None, ok, 0))
          /\ IF ok THEN /\ pc' = [pc EXCEPT ![p] = "wait_idle"]
                        /\ UNCHANGED result
                   ELSE /\ pc' = [pc EXCEPT ![p] = "done"]
                        /\ result' = [result EXCEPT ![p] = <<>>]
    /\ UNCHANGED pureVars
    /\ UNCHANGED <<table, nextId, now, lastSaved, outcomes, lastOp, url, cached,
                   strategy, products, record, raised, idleTimeout,
                   startTable>>

\* WaitIdle that returns [] when the wait times out.
WaitIdleAborts(p) ==
    /\ pc[p] = "wait_idle"
    /\ \E timeout \in BOOLEAN :
          /\ Logged(p, Event("wait_idle", None, ~timeout, 0))
          /\ idleTimeout' = [idleTimeout EXCEPT ![p] = timeout]
          /\ pc' = [pc EXCEPT ![p] = IF timeout THEN "done" ELSE "load"]
    /\ UNCHANGED pureVars
    /\ UNCHANGED <<table, nextId, now, lastSaved, outcomes, lastOp, url, cached,
                   strategy, products, record, result, raised, startTable>>

\* page.wait_for_load_state (lines 121-124): a timeout is swallowed.
WaitIdle(p) ==
    /\ pc[p] = "wait_idle"
    /\ \E timeout \in BOOLEAN :
          /\ Logged(p, Event("wait_idle", None, ~timeout, 0))
          /\ idleTimeout' = [idleTimeout EXCEPT ![p] = timeout]
          /\ pc' = [pc EXCEPT ![p] = "load"]
    /\ UNCHANGED pureVars
    /\ UNCHANGED <<table, nextId, now, lastSaved, outcomes, lastOp, url, cached,
                   strategy, products, record, result, raised, startTable>>

\* cached = await get_cached_strategy(domain) (lines 127-128).
LoadCached(p) ==
    LET d == extract_domain(url[p])
        corrupt == GetCachedRaises(table, d, now)
        got == get_cached_strategy(table, d, now)
    IN
    /\ pc[p] = "load"
    /\ Logged(p, Event("load", None, FALSE, 0))
    /\ IF corrupt
         THEN /\ raised' = [raised EXCEPT ![p] = TRUE]
              /\ pc' = [pc EXCEPT ![p] = "done"]
              /\ UNCHANGED cached
         ELSE /\ cached' = [cached EXCEPT ![p] = got]
              /\ pc' = [pc EXCEPT ![p] =
                            IF got # None THEN "extract_cached" ELSE "discover"]
              /\ UNCHANGED raised
    /\ UNCHANGED pureVars
    /\ UNCHANGED <<table, nextId, now, lastSaved, outcomes, lastOp, url, strategy,
                   products, record, result, idleTimeout, startTable>>

\* products = await _extract_with_strategy(page, cached, ...) (line 130).
ExtractCached(p) ==
    /\ pc[p] = "extract_cached"
    /\ \E n \in 0..MaxRecords :
          /\ Logged(p, Event("extract", cached[p], FALSE, n))
          /\ products' = [products EXCEPT ![p] =
                          Extracted(extract_domain(url[p]), cached[p][1], n, 1)]
    /\ pc' = [pc EXCEPT ![p] = "update_select"]
    /\ UNCHANGED pureVars
    /\ UNCHANGED <<table, nextId, now, lastSaved, outcomes, lastOp, url, cached,
                   strategy, record, result, raised, idleTimeout, startTable>>

\* AfterUpdate that returns the products also when there are none.
AfterUpdateReturns(p) ==
    /\ result' = [result EXCEPT ![p] = products[p]]
    /\ pc' = [pc EXCEPT ![p] = "done"]

\* AfterUpdate that goes on to discovery also after a successful extraction.
AfterUpdateRediscovers(p) ==
    /\ pc' = [pc EXCEPT ![p] = "discover"]
    /\ UNCHANGED result

\* What follows update_success_rate in scrape_page (lines 131-136).
AfterUpdate(p) ==
    IF products[p] # <<>>
      THEN /\ result' = [result EXCEPT ![p] = products[p]]
           /\ pc' = [pc EXCEPT ![p] = "done"]
      ELSE /\ pc' = [pc EXCEPT ![p] = "discover"]
           /\ UNCHANGED result

\* update_success_rate(domain, success=bool(products)) up to its select
\* (lines 132 and 136; db_cache.py lines 80-86).
UpdateSelect(p) ==
    LET found == SelectRecord(table, extract_domain(url[p])) IN
    /\ pc[p] = "update_select"
    /\ Logged(p, Event("update_success_rate", None, products[p] # <<>>, 0))
    /\ record' = [record EXCEPT ![p] = found]
    /\ IF found = None
         THEN AfterUpdate(p)
         ELSE /\ pc' = [pc EXCEPT ![p] = "update_commit"]
              /\ UNCHANGED result
    /\ UNCHANGED pureVars
    /\ UNCHANGED <<table, nextId, now, lastSaved, outcomes, lastOp, url, cached,
                   strategy, products, raised, idleTimeout, startTable>>

\* The rest of update_success_rate (db_cache.py lines 88-92).
UpdateCommitStep(p) ==
    /\ pc[p] = "update_commit"
    /\ table' = UpdateCommit(table, record[p], products[p] # <<>>, now)
    /\ outcomes' = Recorded(record[p], extract_domain(url[p]),
                            products[p] # <<>>)
    /\ AfterUpdate(p)
    /\ UNCHANGED pureVars
    /\ UNCHANGED <<nextId, now, lastSaved, lastOp, url, cached, strategy,
                   products, record, raised, idleTimeout, log, startTable>>

\* strategy = await discover_strategy(page, ...) (lines 139-142): the page
\* decides whether a strategy is found, and which.
Discover(p) ==
    /\ pc[p] = "discover"
    /\ Logged(p, Event("discover_strategy", None, FALSE, 0))
    /\ \E s \in {None} \cup {Some(x) : x \in Strategies} :
          /\ strategy' = [strategy EXCEPT ![p] = s]
          /\ IF s = None
               THEN /\ result' = [result EXCEPT ![p] = <<>>]
                    /\ pc' = [pc EXCEPT ![p] = "done"]
               ELSE /\ pc' = [pc EXCEPT ![p] = "save_select"]
                    /\ UNCHANGED result
    /\ UNCHANGED pureVars
    /\ UNCHANGED <<table, nextId, now, lastSaved, outcomes, lastOp, url, cached,
                   products, record, raised, idleTimeout, startTable>>

\* save_strategy(domain, strategy) up to its select (line 145; db_cache.py
\* lines 57-60).
SaveSelect(p) ==
    /\ pc[p] = "save_select"
    /\ Logged(p, Event("save_strategy", strategy[p], FALSE, 0))
    /\ record' = [record EXCEPT ![p] =
                      SelectRecord(table, extract_domain(url[p]))]
    /\ pc' = [pc EXCEPT ![p] = "save_commit"]
    /\ UNCHANGED pureVars
    /\ UNCHANGED <<table, nextId, now, lastSaved, outcomes, lastOp, url, cached,
                   strategy, products, result, raised, idleTimeout,
                   startTable>>

\* The rest of save_strategy (db_cache.py lines 62-75): the commit of an
\* INSERT raises when the domain has got a row in the meantime.
SaveCommitStep(p) ==
    LET d == extract_domain(url[p]) IN
    /\ pc[p] = "save_commit"
    /\ table' = SaveCommit(table, record[p], nextId, d, strategy[p][1], now)
    /\ nextId' = SaveNextId(table, record[p], nextId, d)
    /\ IF record[p] = None /\ InsertRaises(table, d)
         THEN /\ raised' = [raised EXCEPT ![p] = TRUE]
              /\ pc' = [pc EXCEPT ![p] = "done"]
              /\ UNCHANGED <<lastSaved, outcomes>>
         ELSE /\ lastSaved' = [lastSaved EXCEPT ![d] = strategy[p]]
              /\ outcomes' = [outcomes EXCEPT ![d] = <<>>]
              /\ pc' = [pc EXCEPT ![p] = "extract_new"]
              /\ UNCHANGED raised
    /\ UNCHANGED pureVars
    /\ UNCHANGED <<now, lastOp, url, cached, strategy, products, record,
                   result, idleTimeout, log, startTable>>

\* products = await _extract_with_strategy(page, strategy, ...); return
\* products (lines 148-152).
ExtractNew(p) ==
    /\ pc[p] = "extract_new"
    /\ \E n \in 0..MaxRecords :
          LET got == Extracted(extract_domain(url[p]), strategy[p][1], n,
                               IF cached[p] = None THEN 1 ELSE 2)
          IN  /\ Logged(p, Event("extract", strategy[p], FALSE, n))
              /\ products' = [products EXCEPT ![p] = got]
              /\ result' = [result EXCEPT ![p] = got]
    /\ pc' = [pc EXCEPT ![p] = "done"]
    /\ UNCHANGED pureVars
    /\ UNCHANGED <<table, nextId, now, lastSaved, outcomes, lastOp, url, cached,
                   strategy, record, raised, idleTimeout, startTable>>

\* One caller that awaits each scrape before it starts the next.
Caller == CHOOSE p \in Scrapes : \A q \in Scrapes : p <= q

Next ==
    \/ Tick
    \/ \E u \in Urls : StartScrape(Caller, u)
    \/ Goto(Caller)
    \/ WaitIdle(Caller)
    \/ LoadCached(Caller)
    \/ ExtractCached(Caller)
    \/ UpdateSelect(Caller)
    \/ UpdateCommitStep(Caller)
    \/ Discover(Caller)
    \/ SaveSelect(Caller)
    \/ SaveCommitStep(Caller)
    \/ ExtractNew(Caller)

Spec == Init /\ [][Next]_vars

----------------------------------------------------------------------------
(* Scrapes of a site whose pages yield no record *)

\* The caller scrapes one domain again and again; every navigation
\* succeeds, and every extraction returns no record.
NextLive ==
    /\ \/ \E u \in Urls : StartScrape(Caller, u)
       \/ Goto(Caller)
       \/ WaitIdle(Caller)
       \/ LoadCached(Caller)
       \/ ExtractCached(Caller)
       \/ UpdateSelect(Caller)
       \/ UpdateCommitStep(Caller)
       \/ Discover(Caller)
       \/ SaveSelect(Caller)
       \/ SaveCommitStep(Caller)
       \/ ExtractNew(Caller)
    /\ extract_domain(url'[Caller]) = <<"shop", "example", "com">>
    /\ pc[Caller] = "goto" => pc'[Caller] = "wait_idle"
    /\ products'[Caller] = <<>>

\* The caller goes on scraping, and every await of a scrape returns.
SpecLive == Init /\ [][NextLive]_vars /\ WF_vars(NextLive)

----------------------------------------------------------------------------
(* The table written from outside the program *)

\* A text cut off inside its first member, and the JSON text of an object
\* without product_container.
ForeignTexts ==
    { << <<"product_container">> >>,
      << <<"name_selector", "h2 a">>, <<"version", 1>> >> }

\* strategy_json is a Text column without a constraint: another writer of
\* the database replaces the text of the row of d.
CorruptRow(d, text) ==
    /\ \E r \in table :
          /\ r.domain = d
          /\ r.strategy_json \notin ForeignTexts
          /\ table' = (table \ {r}) \cup {[r EXCEPT !.strategy_json = text]}
    /\ UNCHANGED pureVars
    /\ UNCHANGED <<nextId, now, lastSaved, outcomes, lastOp, scrapeVars>>

NextCorrupt ==
    \/ \E d \in Domains, text \in ForeignTexts : CorruptRow(d, text)
    \/ \E u \in Urls : StartScrape(Caller, u)
    \/ Goto(Caller)
    \/ WaitIdle(Caller)
    \/ LoadCached(Caller)
    \/ ExtractCached(Caller)
    \/ UpdateSelect(Caller)
    \/ UpdateCommitStep(Caller)
    \/ Discover(Caller)
    \/ SaveSelect(Caller)
    \/ SaveCommitStep(Caller)
    \/ ExtractNew(Caller)

\* The sequential caller, and a database that other writers change.
SpecCorrupt == Init /\ [][NextCorrupt]_vars

----------------------------------------------------------------------------
(* Concurrent scrapes *)

\* Each task of the caller runs scrape_page once.
NextConc ==
    \E p \in Scrapes :
        \/ \E u \in Urls : pc[p] = "idle" /\ StartScrape(p, u)
        \/ Goto(p)
        \/ WaitIdle(p)
        \/ LoadCached(p)
        \/ ExtractCached(p)
        \/ UpdateSelect(p)
        \/ UpdateCommitStep(p)
        \/ Discover(p)
        \/ SaveSelect(p)
        \/ SaveCommitStep(p)
        \/ ExtractNew(p)

\* The database is empty, or holds the row that earlier scrapes of a domain
\* left: saved and not used since, or saved and used once without success
\* (an extraction of no record, and a discovery that found no strategy).
InitConc ==
    \/ Init
    \/ /\ PureIdle
       /\ \E d \in Domains, s \in Strategies, used \in {<<>>, <<FALSE>>} :
             /\ table = { [id |-> 1, domain |-> d, strategy_json |-> to_json(s),
                           success_rate |-> IF used = <<>> THEN Scale
                                            ELSE Ema(Scale, FALSE),
                           created_at |-> 0, updated_at |-> 0] }
             /\ lastSaved = [x \in Domains |-> IF x = d THEN Some(s) ELSE None]
             /\ outcomes = [x \in Domains |-> IF x = d THEN used ELSE <<>>]
       /\ nextId = 2
       /\ now = 0
       /\ lastOp = NoOp
       /\ pc = [p \in Scrapes |-> "idle"]
       /\ url = [p \in Scrapes |-> CHOOSE u \in Urls : TRUE]
       /\ cached = [p \in Scrapes |-> None]
       /\ strategy = [p \in Scrapes |-> None]
       /\ products = [p \in Scrapes |-> <<>>]
       /\ record = [p \in Scrapes |-> None]
       /\ result = [p \in Scrapes |-> <<>>]
       /\ raised = [p \in Scrapes |-> FALSE]
       /\ idleTimeout = [p \in Scrapes |-> FALSE]
       /\ log = [p \in Scrapes |-> <<>>]
       /\ startTable = [p \in Scrapes |-> {}]

\* NumScrapes tasks, each one scrape, interleaved at their awaits.
SpecConc == InitConc /\ [][NextConc]_vars

----------------------------------------------------------------------------
(* The page, as the browsing capability answers about it.  A text is the
   sequence of its characters. *)

coreVars == <<table, nextId, now, lastSaved, outcomes, lastOp, scrapeVars>>

\* What container.query_selector(selector) gives: no element, an exception,
\* an element whose inner_text raises, or an element with its inner text and
\* its href or src attribute.
NoElement == <<"none", <<>>, None>>
QueryFails == <<"raises", <<>>, None>>
Unreadable == <<"unreadable", <<>>, None>>
Element(text, attr) == <<"element", text, attr>>

\* container.query_selector(sel)
Q(c, sel) == IF sel \in DOMAIN c.sub THEN c.sub[sel] ELSE NoElement

\* page.query_selector_all(sel): <<"ok", containers>> or <<"raises", <<>>>>
QueryAll(pg, sel) == IF sel \in DOMAIN pg.all THEN pg.all[sel] ELSE <<"ok", <<>>>>

DigitChars == <<"0", "1", "2", "3", "4", "5", "6", "7", "8", "9">>

RECURSIVE Digits(_)
Digits(i) ==
    IF i < 10 THEN <<DigitChars[i + 1]>>
    ELSE Digits(i \div 10) \o <<DigitChars[(i % 10) + 1]>>

LowerCase == <<"a", "b", "c", "d", "e", "f", "g", "h", "i", "j", "k", "l", "m",
               "n", "o", "p", "q", "r", "s", "t", "u", "v", "w", "x", "y", "z">>
UpperCase == <<"A", "B", "C", "D", "E", "F", "G", "H", "I", "J", "K", "L", "M",
               "N", "O", "P", "Q", "R", "S", "T", "U", "V", "W", "X", "Y", "Z">>

\* str.upper() and str.lower()
Upper(text) ==
    [i \in 1..Len(text) |->
        IF \E k \in 1..26 : LowerCase[k] = text[i]
          THEN UpperCase[CHOOSE k \in 1..26 : LowerCase[k] = text[i]]
          ELSE text[i]]
Lower(text) ==
    [i \in 1..Len(text) |->
        IF \E k \in 1..26 : UpperCase[k] = text[i]
          THEN LowerCase[CHOOSE k \in 1..26 : UpperCase[k] = text[i]]
          ELSE text[i]]

Whitespace == {" ", "\t", "\n"}

\* str.strip()
Strip(text) ==
    LET solid == {i \in 1..Len(text) : text[i] \notin Whitespace} IN
    IF solid = {} THEN <<>>
    ELSE SubSeq(text, CHOOSE i \in solid : \A j \in solid : i <= j,
                      CHOOSE i \in solid : \A j \in solid : j <= i)

\* `w in text`
Has(text, w) ==
    \E i \in 1..(Len(text) - Len(w) + 1) : SubSeq(text, i, i + Len(w) - 1) = w

\* The characters U+20AA, U+20AC and U+00A3.
Shekel == "U+20AA"
Euro == "U+20AC"
Pound == "U+00A3"

\* The texts and attributes of the elements of the model's pages.
NameText(i) == <<"K">> \o Digits(i)
PriceText(i) == <<"$">> \o Digits(i) \o <<".", "5", "0">>
NoiseText == <<"4", "4", " ", "d", "B">>
BrandText == <<"A", "c", "m", "e">>
MpnText(i) == <<"M", "-">> \o Digits(i)
Href(i) == [host |-> <<>>, path |-> "/product/" \o ToString(i)]
Src(i) == [host |-> <<"cdn", "example", "com">>, path |-> "/img/" \o ToString(i)]

\* A product card: every field of product i is in its place.
Card(i) ==
    [sub |-> ("h2 a" :> Element(<<" ">> \o NameText(i) \o <<"\n">>,
                                Some(Href(i))))
          @@ ("h2" :> Element(NameText(i), None))
          @@ ("[class*='price']" :> Element(PriceText(i), None))
          @@ ("a[href]" :> Element(NameText(i), Some(Href(i))))
          @@ ("img" :> Element(<<>>, Some(Src(i))))
          @@ (".brand" :> Element(BrandText, None))
          @@ (".mpn" :> Element(MpnText(i), None))
          @@ ("[class*='noise_level']" :> Element(NoiseText, None)),
     text |-> Element(NameText(i) \o <<" ">> \o PriceText(i) \o <<" ">>
                        \o NoiseText, None)]

\* An element among the containers that is no product (a banner).
Banner(i) ==
    [sub |-> [x \in {} |-> NoElement], text |-> Element(<<"S", "a", "l", "e">>, None)]

\* A card on which the query of the first name candidate raises.
HalfBroken(i) ==
    [sub |-> ("h2 a" :> QueryFails) @@ ("h3" :> Element(NameText(i), None)),
     text |-> Element(NameText(i), None)]

\* A block with a price in a span, no link and no heading.
PriceOnly(i) ==
    [sub |-> ("span" :> Element(PriceText(i), None)),
     text |-> Element(PriceText(i), None)]

\* page.evaluate of the price-pattern script answers null, raises, or gives
\* <<"group", tag, classes>> of the most frequent group.
EvalNull == <<"null", "", <<>>>>

\* The pages of discovery.  ".product-card" raises or matches up to
\* MaxContainers elements of which at most one (the k-th) is a card and the
\* others are banners; ".product" matches nothing, banners, a card with
\* its name under a title class only, or a card on which the first name
\* query raises; the elements of the price-pattern group are price blocks
\* or cards.
DiscoveryPages ==
    LET TitleCard(i) ==
            [sub |-> ("[class*='title']" :> Element(NameText(i), None)),
             text |-> Element(NameText(i), None)]
        Lists ==
            {<<"raises", <<>>>>} \cup
            { <<"ok", [i \in 1..n |-> IF i = k THEN Card(i) ELSE Banner(i)]>> :
                n \in 0..MaxContainers, k \in 0..MaxContainers }
        SomeLists ==
            { <<"ok", <<>>>>, <<"raises", <<>>>>,
              <<"ok", <<Banner(1), Banner(2)>>>>,
              <<"ok", <<Banner(1), TitleCard(2)>>>>,
              <<"ok", <<Banner(1), Banner(2), Banner(3), HalfBroken(4)>>>>,
              <<"ok", <<Banner(1), Banner(2), HalfBroken(3)>>>> }
        GroupLists ==
            { <<"ok", <<>>>>, <<"raises", <<>>>>,
              <<"ok", <<PriceOnly(1)>>>>,
              <<"ok", <<PriceOnly(1), PriceOnly(2)>>>>,
              <<"ok", <<Card(1), Card(2)>>>>,
              <<"ok", <<PriceOnly(1), Card(2)>>>> }
    IN
    { [all |-> (".product-card" :> a) @@ (".product" :> b)
               @@ ("li" :> c) @@ ("section.row" :> c),
       evaluate |-> ev] :
        a \in Lists, b \in SomeLists, c \in GroupLists,
        ev \in {<<"group", "li", <<>>>>,
                <<"group", "section", <<"row", "wide">>>>} }
    \cup
    { [all |-> (".product-card" :> a) @@ (".product" :> b), evaluate |-> ev] :
        a \in Lists, b \in SomeLists,
        ev \in {EvalNull, <<"raises", "", <<>>>>} }

----------------------------------------------------------------------------
(* discover_strategy, one action per container candidate *)

_CONTAINER_CANDIDATES ==
    <<"[data-product-id]", "[data-item-id]", ".product-card", ".product-item",
      ".product-tile", ".product-listing", ".product-box", ".search-result",
      ".s-result-item", ".product", "li[class*='product']",
      "div[class*='product']", "article[class*='product']",
      "div[class*='Product']", "div[class*='item']", "div[class*='Item']">>

_NAME_CANDIDATES ==
    <<"h2 a", "h3 a", "h2", "h3", "[class*='title'] a", "[class*='name'] a",
      "[class*='Title'] a", "[class*='Name'] a", "[class*='title']",
      "[class*='name']", "[class*='Title']", "[class*='Name']",
      "a[class*='product']", "a[class*='Product']", "a[class*='Model']">>

_PRICE_CANDIDATES ==
    <<"[class*='price']", "[class*='Price']", "[data-price]",
      "[data-min-price]", "span[class*='amount']", "[class*='cost']",
      "[class*='Cost']">>

_IMAGE_CANDIDATES ==
    <<"img[src*='product']", "img[data-src]", "img[class*='product']",
      "img[class*='Product']", "img[loading]", "img">>

_URL_CANDIDATES ==
    <<"a[href*='/product']", "a[href*='/dp/']", "a[href*='/item']",
      "a[href*='/p/']", "a[href*='/model']", "a[href*='pid=']", "a[href]">>

\* containers[:3], the containers discover_strategy probes
ProbeLimit == 3

\* TooFew that accepts a single element.
TooFewLenient(containers) == Len(containers) < 1

\* len(containers) < 2
TooFew(containers) == Len(containers) < 2

\* query_selector(sel) returned an element.
Matches(c, sel) == Q(c, sel)[1] \in {"element", "unreadable"}

\* The first candidate that matches in the container, "" when none does;
\* a candidate whose query raises is passed over.
_find_selector(c, cands) ==
    LET hits == {i \in 1..Len(cands) : Matches(c, cands[i])} IN
    IF hits = {} THEN ""
    ELSE cands[CHOOSE i \in hits : \A j \in hits : i <= j]

\* Probes that takes every container.
ProbesAll(containers) == containers

Probes(containers) ==
    SubSeq(containers, 1,
           IF Len(containers) < ProbeLimit THEN Len(containers) ELSE ProbeLimit)

\* The loop over containers[:3] for one kind of sub-selector: the selector
\* found in the first probe in which a candidate matches.
ProbeSelector(containers, cands) ==
    LET ps == Probes(containers)
        hits == {i \in 1..Len(ps) : _find_selector(ps[i], cands) # ""}
    IN  IF hits = {} THEN ""
        ELSE _find_selector(ps[CHOOSE i \in hits : \A j \in hits : i <= j],
                            cands)

_detect_currency(text) ==
    IF Has(text, <<Shekel>>) \/ Has(Upper(text), <<"N", "I", "S">>)
                             \/ Has(Upper(text), <<"I", "L", "S">>) THEN "ILS"
    ELSE IF Has(text, <<Euro>>) \/ Has(Upper(text), <<"E", "U", "R">>) THEN "EUR"
    ELSE IF Has(text, <<Pound>>) \/ Has(Upper(text), <<"G", "B", "P">>) THEN "GBP"
    ELSE IF Has(text, <<"$">>) \/ Has(Upper(text), <<"U", "S", "D">>) THEN "USD"
    ELSE ""

RECURSIVE Join(_, _)
Join(parts, sep) ==
    IF Len(parts) = 0 THEN ""
    ELSE IF Len(parts) = 1 THEN parts[1]
    ELSE parts[1] \o sep \o Join(Tail(parts), sep)

_criterion_css_candidates(key) ==
    <<"[class*='" \o Join(key, "_") \o "']",
      "[class*='" \o key[1] \o "']",
      "[data-spec='" \o Join(key, "_") \o "']",
      "[data-attribute='" \o Join(key, "_") \o "']">>

\* The element has a non-empty text of less than 200 characters.
ShortText(c, sel) ==
    /\ Q(c, sel)[1] = "element"
    /\ Strip(Q(c, sel)[2]) # <<>>
    /\ Len(Strip(Q(c, sel)[2])) < 200

\* The <<key, selector>> pairs, in the order of the criteria, of the keys
\* other than price for which a generated selector has a short text.
_discover_criteria_selectors(c, crit) ==
    LET keys == IF crit = None THEN <<>> ELSE crit[1]
        Found(k) == {i \in 1..4 : ShortText(c, _criterion_css_candidates(k)[i])}
        Probed(i) == keys[i].key # <<"price">> /\ Found(keys[i].key) # {}
        Pair(i) ==
            <<Join(keys[i].key, "_"),
              _criterion_css_candidates(keys[i].key)[
                  CHOOSE a \in Found(keys[i].key) :
                      \A b \in Found(keys[i].key) : a <= b]>>
        F[i \in 0..Len(keys)] ==
            IF i = 0 THEN <<>>
            ELSE IF Probed(i) THEN Append(F[i - 1], Pair(i)) ELSE F[i - 1]
    IN  F[Len(keys)]

\* The strategy returned for an accepted container candidate (lines 217-271).
CssStrategy(sel, containers, crit) ==
    LET name_sel == ProbeSelector(containers, _NAME_CANDIDATES)
        price_sel == ProbeSelector(containers, _PRICE_CANDIDATES)
        ps == Probes(containers)
        hits == {i \in 1..Len(ps) : Matches(ps[i], name_sel)}
        probe_container ==
            IF hits = {} THEN containers[1]
            ELSE ps[CHOOSE i \in hits : \A j \in hits : i <= j]
    IN  [Defaults EXCEPT
            !.product_container  = sel,
            !.name_selector      = name_sel,
            !.price_selector     = price_sel,
            !.image_selector     = ProbeSelector(containers, _IMAGE_CANDIDATES),
            !.url_selector       = ProbeSelector(containers, _URL_CANDIDATES),
            !.currency_hint      =
                IF price_sel # "" /\ Q(probe_container, price_sel)[1] = "element"
                  THEN _detect_currency(Q(probe_container, price_sel)[2])
                  ELSE "",
            !.discovery_method   = "css_candidates",
            !.criteria_selectors =
                _discover_criteria_selectors(probe_container, crit)]

_discover_by_price_pattern(pg) ==
    IF pg.evaluate[1] # "group" THEN None
    ELSE
      LET tag == pg.evaluate[2]
          classes == pg.evaluate[3]
          container_selector ==
              IF classes # <<>> THEN tag \o "." \o classes[1] ELSE tag
          got == QueryAll(pg, container_selector)
          first == got[2][1]
          name_sel == _find_selector(first, _NAME_CANDIDATES)
          price_sel == _find_selector(first, _PRICE_CANDIDATES)
      IN  IF got[1] = "raises" \/ TooFew(got[2]) THEN None
          ELSE Some([Defaults EXCEPT
                  !.product_container = container_selector,
                  !.name_selector     = IF name_sel # "" THEN name_sel ELSE "a",
                  !.price_selector    = IF price_sel # "" THEN price_sel
                                        ELSE "span",
                  !.discovery_method  = "price_pattern"])

\* One round of the loop over _CONTAINER_CANDIDATES (lines 203-271).
TryCandidate ==
    LET sel == _CONTAINER_CANDIDATES[dcand]
        got == QueryAll(page, sel)
    IN
    /\ dpc = "css"
    /\ IF \/ got[1] = "raises"
          \/ TooFew(got[2])
          \/ ProbeSelector(got[2], _NAME_CANDIDATES) = ""
         THEN /\ dcand' = dcand + 1
              /\ dpc' = IF dcand = Len(_CONTAINER_CANDIDATES)
                          THEN "fallback" ELSE "css"
              /\ UNCHANGED discovered
         ELSE /\ discovered' = Some(CssStrategy(sel, got[2], criteria))
              /\ dpc' = "done"
              /\ UNCHANGED dcand
    /\ UNCHANGED <<coreVars, page, criteria, xstrategy, base_url, xproducts,
                   results, merged, formatted, ptext, parsed, query,
                   search_results, scrape_calls>>

\* The fallback and the return (lines 273-279).
PricePattern ==
    /\ dpc = "fallback"
    /\ discovered' = _discover_by_price_pattern(page)
    /\ dpc' = "done"
    /\ UNCHANGED <<coreVars, page, criteria, dcand, xstrategy, base_url,
                   xproducts, results, merged, formatted, ptext, parsed,
                   query, search_results, scrape_calls>>

\* discover_strategy is called on a page of the model.
InitDiscover ==
    /\ StoreIdle
    /\ page \in DiscoveryPages
    /\ criteria \in {None, Some(<< [key |-> <<"noise", "level">>,
                                    unit |-> "dB"] >>)}
    /\ dpc = "css"
    /\ dcand = 1
    /\ discovered = None
    /\ xstrategy = None
    /\ base_url = None
    /\ xproducts = None
    /\ results = <<>>
    /\ merged = None
    /\ LateIdle

NextDiscover == TryCandidate \/ PricePattern

SpecDiscover == InitDiscover /\ [][NextDiscover]_vars

----------------------------------------------------------------------------
(* _extract_with_strategy, run to completion *)

_MAX_PRODUCTS_PER_SITE == 50

\* int(ds) of a text of digits.
RECURSIVE ToInt(_)
ToInt(ds) ==
    IF ds = <<>> THEN 0
    ELSE 10 * ToInt(SubSeq(ds, 1, Len(ds) - 1))
            + (CHOOSE k \in 1..10 : DigitChars[k] = ds[Len(ds)]) - 1

\* Float that takes the digits and never fails.
FloatOfDigits(cleaned) ==
    Some(1000 * ToInt(SelectSeq(cleaned, LAMBDA c : c # ".")))

\* float(cleaned) of a text of digits and dots, as a number of thousandths:
\* None on a ValueError.
Float(cleaned) ==
    LET dots == {i \in 1..Len(cleaned) : cleaned[i] = "."}
        dot == IF dots = {} THEN Len(cleaned) + 1 ELSE CHOOSE i \in dots : TRUE
        whole == SubSeq(cleaned, 1, dot - 1)
        frac == SubSeq(cleaned, dot + 1, Len(cleaned))
        frac3 == SubSeq(frac \o <<"0", "0", "0">>, 1, 3)
    IN  IF Cardinality(dots) > 1 \/ Len(cleaned) - Cardinality(dots) = 0
          THEN None
          ELSE Some(1000 * ToInt(whole) + ToInt(frac3))

parse_price(text) ==
    LET cleaned ==
            SelectSeq(Strip(text),
                      LAMBDA c : (\E k \in 1..10 : DigitChars[k] = c)
                                    \/ c \in {".", ","})
        Without(t, ch) == SelectSeq(t, LAMBDA c : c # ch)
        Replaced(t, ch, by) ==
            [i \in 1..Len(t) |-> IF t[i] = ch THEN by ELSE t[i]]
        LastIndex(t, ch) ==
            CHOOSE i \in 1..Len(t) :
                t[i] = ch /\ \A j \in 1..Len(t) : t[j] = ch => j <= i
    IN
    IF text = <<>> \/ cleaned = <<>> THEN None
    ELSE IF Has(cleaned, <<",">>) /\ Has(cleaned, <<".">>)
      THEN IF LastIndex(cleaned, ",") > LastIndex(cleaned, ".")
             THEN Float(Replaced(Without(cleaned, "."), ",", "."))
             ELSE Float(Without(cleaned, ","))
    ELSE IF Has(cleaned, <<",">>)
      THEN IF Len(cleaned) - LastIndex(cleaned, ",") = 2
             THEN Float(Replaced(cleaned, ",", "."))
             ELSE Float(Without(cleaned, ","))
    ELSE Float(cleaned)

_detect_currency_from_text(text) ==
    IF Has(text, <<Shekel>>) THEN "ILS"
    ELSE IF Has(text, <<Euro>>) THEN "EUR"
    ELSE IF Has(text, <<Pound>>) THEN "GBP"
    ELSE IF Has(text, <<"$">>) THEN "USD"
    ELSE ""

\* urljoin(base_url, href) for an absolute href or a path from the root.
urljoin(base, href) ==
    [host |-> IF href.host # <<>> THEN href.host ELSE base.host,
     path |-> href.path]

HexChars == DigitChars \o <<"a", "b", "c", "d", "e", "f">>

\* hashlib.md5(key.encode()).hexdigest()[:12]: 12 characters of 0-9a-f
\* that the key determines (a stand-in for the digest).
Md5Hex12(key) ==
    LET Code(c) == IF \E k \in 1..16 : HexChars[k] = c
                     THEN CHOOSE k \in 1..16 : HexChars[k] = c
                     ELSE 17
        H[i \in 0..Len(key)] ==
            IF i = 0 THEN 7 ELSE (31 * H[i - 1] + Code(key[i])) % 65536
    IN  [i \in 1..12 |-> HexChars[((H[Len(key)] * i + i) % 16) + 1]]

\* The criteria keys that have a hand-tuned pattern, and the units that
\* have a template.
_SPECIAL_PATTERNS ==
    {"resolution", "panel_type", "energy_rating", "processor", "ram",
     "storage", "noise_cancelling", "frost_free", "inverter", "filtration"}
_UNIT_PATTERN_TEMPLATES ==
    {"dB", "L", "kg", "g", "W", "BTU", "RPM", "Hz", "inches", "GB", "TB",
     "mm", "cm", "hours", "min", "m2", "years", "C", "kW"}

_DEFAULT_CRITERIA ==
    << [key |-> <<"noise", "level">>, unit |-> "dB"],
       [key |-> <<"capacity">>, unit |-> "L"],
       [key |-> <<"weight">>, unit |-> "kg"],
       [key |-> <<"power">>, unit |-> "W"],
       [key |-> <<"cooling", "capacity">>, unit |-> "BTU"],
       [key |-> <<"spin", "speed">>, unit |-> "RPM"],
       [key |-> <<"screen", "size">>, unit |-> "inches"],
       [key |-> <<"resolution">>, unit |-> ""],
       [key |-> <<"panel", "type">>, unit |-> ""],
       [key |-> <<"refresh", "rate">>, unit |-> "Hz"],
       [key |-> <<"energy", "rating">>, unit |-> ""],
       [key |-> <<"processor">>, unit |-> ""],
       [key |-> <<"ram">>, unit |-> "GB"],
       [key |-> <<"storage">>, unit |-> ""],
       [key |-> <<"noise", "cancelling">>, unit |-> ""],
       [key |-> <<"frost", "free">>, unit |-> ""],
       [key |-> <<"inverter">>, unit |-> ""],
       [key |-> <<"filtration">>, unit |-> ""] >>

\* The <<key, pattern>> pairs: the pattern is named by the special key or
\* by the unit; price and the keys without a pattern are left out.
build_extraction_patterns(crit) ==
    LET source == IF crit = None THEN _DEFAULT_CRITERIA ELSE crit[1]
        Name(i) == Join(source[i].key, "_")
        Seen(i) == \E j \in 1..(i - 1) : source[j].key = source[i].key
        F[i \in 0..Len(source)] ==
            IF i = 0 THEN <<>>
            ELSE IF Seen(i) \/ Name(i) = "price" THEN F[i - 1]
            ELSE IF Name(i) \in _SPECIAL_PATTERNS
              THEN Append(F[i - 1], <<Name(i), Name(i)>>)
            ELSE IF source[i].unit \in _UNIT_PATTERN_TEMPLATES
              THEN Append(F[i - 1], <<Name(i), source[i].unit>>)
            ELSE F[i - 1]
    IN  F[Len(source)]

WordChars == {LowerCase[k] : k \in 1..26} \cup {UpperCase[k] : k \in 1..26}
                \cup {DigitChars[k] : k \in 1..10} \cup {"_"}

\* pattern.search(text).group(...).strip(): None when there is no match.
\* The texts of the model's pages hold no unit or keyword but dB, so that
\* the other patterns have no match.
\* RunEnd is the last index of the run of characters of S that starts at i
\* (i - 1 when text[i] is not in S); DbMatchEnd is the end of the match of
\* (\d+)\s*db\b (ignoring case) that starts at i, 0 when there is none.
PatternSearch(pattern, text) ==
    LET RunEnd(i, S) ==
            LET js == {j \in (i - 1)..Len(text) : \A m \in i..j : text[m] \in S}
            IN  CHOOSE j \in js : \A k \in js : k <= j
        DbMatchEnd(i) ==
            LET j == RunEnd(i, {DigitChars[k] : k \in 1..10})
                k == RunEnd(j + 1, Whitespace)
            IN  IF /\ j >= i
                   /\ k + 2 <= Len(text)
                   /\ Lower(<<text[k + 1], text[k + 2]>>) = <<"d", "b">>
                   /\ (k + 3 <= Len(text) => text[k + 3] \notin WordChars)
                  THEN k + 2 ELSE 0
        starts == {i \in 1..Len(text) : DbMatchEnd(i) > 0}
    IN
    IF pattern # "dB" \/ starts = {} THEN None
    ELSE LET i == CHOOSE a \in starts : \A b \in starts : a <= b
         IN  Some(Strip(SubSeq(text, i, DbMatchEnd(i))))

\* The stripped inner text of the element under sel; "" without a selector,
\* without an element, and on an exception.
ReadText(c, sel) ==
    IF sel # "" /\ Q(c, sel)[1] = "element" THEN Strip(Q(c, sel)[2]) ELSE <<>>

\* The same, None for "".
ReadOptional(c, sel) ==
    IF sel # "" /\ Q(c, sel)[1] = "element" THEN Some(Strip(Q(c, sel)[2]))
    ELSE None

\* The href or src of the element under sel, joined to the base url.
ReadLink(c, sel, base) ==
    IF sel # "" /\ Q(c, sel)[1] = "element" /\ Q(c, sel)[3] # None
      THEN Some(urljoin(base, Q(c, sel)[3][1]))
      ELSE None

HasKey(pairs, k) == \E i \in 1..Len(pairs) : pairs[i][1] = k

\* Phase 1 of the criteria: the selectors of the strategy (lines 285-293).
Phase1(c, s) ==
    LET sels == s.criteria_selectors
        F[i \in 0..Len(sels)] ==
            IF i = 0 THEN <<>>
            ELSE IF ShortText(c, sels[i][2])
              THEN Append(F[i - 1], <<sels[i][1], Strip(Q(c, sels[i][2])[2])>>)
              ELSE F[i - 1]
    IN  F[Len(sels)]

\* Phase 2: the patterns on the container's text, for the keys not found
\* (lines 296-309).
Phase2(c, found, patterns) ==
    LET full_text == IF c.text[1] = "element" THEN Strip(c.text[2]) ELSE <<>>
        F[i \in 0..Len(patterns)] ==
            IF i = 0 THEN found
            ELSE LET data == F[i - 1]
                     value == PatternSearch(patterns[i][2], full_text)
                 IN  IF HasKey(data, patterns[i][1]) THEN data
                     ELSE IF value # None /\ value[1] # <<>>
                       THEN Append(data, <<patterns[i][1], value[1]>>)
                       ELSE data
    IN  IF patterns = <<>> \/ full_text = <<>> THEN found
        ELSE F[Len(patterns)]

\* The record built once the name is found (lines 216-325).
Product(c, s, base, d, patterns) ==
    LET name == ReadText(c, s.name_selector)
        price_text == ReadText(c, s.price_selector)
        priced == s.price_selector # "" /\ Q(c, s.price_selector)[1] = "element"
        brand == ReadOptional(c, s.brand_selector)
        mpn == ReadOptional(c, s.mpn_selector)
        key == Strip(Lower((IF brand = None THEN <<>> ELSE brand[1]) \o name))
    IN  [name      |-> name,
         model_id  |-> IF mpn # None /\ mpn[1] # <<>> THEN mpn
                       ELSE IF key # <<>> THEN Some(Md5Hex12(key)) ELSE None,
         brand     |-> brand,
         image_url |-> ReadLink(c, s.image_selector, base),
         criteria  |-> Phase2(c, Phase1(c, s), patterns),
         sellers   |-> << [name     |-> d,
                           price    |-> IF priced THEN parse_price(price_text)
                                        ELSE None,
                           currency |->
                               IF priced /\ _detect_currency_from_text(price_text) # ""
                                 THEN _detect_currency_from_text(price_text)
                               ELSE IF s.currency_hint # "" THEN s.currency_hint
                               ELSE "USD",
                           url      |-> ReadLink(c, s.url_selector, base)] >>]

\* _extract_single_product that gives up the container when the price
\* cannot be read.
ExtractSingleStrict(c, s, base, d, patterns) ==
    IF \/ ReadText(c, s.name_selector) = <<>>
       \/ Q(c, s.price_selector)[1] \in {"raises", "unreadable"}
      THEN None
      ELSE Some(Product(c, s, base, d, patterns))

\* _extract_single_product that emits a record without looking at the name.
ExtractSingleNameless(c, s, base, d, patterns) ==
    Some(Product(c, s, base, d, patterns))

_extract_single_product(c, s, base, d, patterns) ==
    IF ReadText(c, s.name_selector) = <<>> THEN None
    ELSE Some(Product(c, s, base, d, patterns))

_extract_with_strategy(pg, s, base, crit) ==
    LET got == QueryAll(pg, s.product_container)
        patterns == build_extraction_patterns(crit)
        n == IF Len(got[2]) < _MAX_PRODUCTS_PER_SITE THEN Len(got[2])
             ELSE _MAX_PRODUCTS_PER_SITE
        One(i) == _extract_single_product(got[2][i], s, base,
                                          extract_domain(base), patterns)
        F[i \in 0..n] ==
            IF i = 0 THEN <<>>
            ELSE LET product == One(i) IN
                 IF product # None THEN Append(F[i - 1], product[1])
                 ELSE F[i - 1]
    IN  IF got[1] = "raises" THEN <<>> ELSE F[n]

\* A strategy with every selector, as a caller of save_scraping_instructions
\* can store it.
StrategyFull ==
    [StrategyCss EXCEPT !.brand_selector = ".brand",
                        !.mpn_selector   = ".mpn",
                        !.currency_hint  = ""]

\* Card i with the element under sel replaced by out.
Faulty(i, sel, out) == [Card(i) EXCEPT !.sub = (sel :> out) @@ @]

\* Card i, intact, or with one of its elements missing, failing or blank,
\* or with its own text failing.
Variants(i) ==
    {Card(i), [Card(i) EXCEPT !.text = QueryFails],
     [Faulty(i, "[class*='noise_level']", QueryFails) EXCEPT !.text = Unreadable]}
    \cup {Faulty(i, sel, out) :
            sel \in {"h2 a", "[class*='price']", "a[href]", "img", ".brand",
                     ".mpn", "[class*='noise_level']"},
            out \in {NoElement, QueryFails, Unreadable, Element(<<" ">>, None)}}

\* The pages of the extraction: the container selector raises, or matches
\* cards of which at most one is not intact; up to MaxContainers cards, or
\* one card around _MAX_PRODUCTS_PER_SITE.
ExtractPages ==
    LET List(n, k, v) ==
            <<"ok", [i \in 1..n |-> IF i = k THEN v ELSE Card(i)]>>
        lists ==
            {<<"raises", <<>>>>}
            \cup UNION { { List(n, k, v) : v \in Variants(k) } :
                         n \in 0..MaxContainers, k \in 1..MaxContainers }
            \cup UNION { { List(n, k, v) :
                             v \in {Card(k), Faulty(k, "h2 a", NoElement),
                                    Faulty(k, "[class*='price']", QueryFails)} } :
                         n \in {_MAX_PRODUCTS_PER_SITE - 1,
                                _MAX_PRODUCTS_PER_SITE,
                                _MAX_PRODUCTS_PER_SITE + 1},
                         k \in {1, _MAX_PRODUCTS_PER_SITE} }
    IN  { [all |-> (".product-card" :> a), evaluate |-> EvalNull] : a \in lists }

\* products = await _extract_with_strategy(page, strategy, url, criteria=...)
ExtractWithStrategy ==
    /\ xproducts = None
    /\ xproducts' = Some(_extract_with_strategy(page, xstrategy[1],
                                                base_url[1], criteria))
    /\ UNCHANGED <<coreVars, page, criteria, dpc, dcand, discovered,
                   xstrategy, base_url, results, merged, formatted, ptext,
                   parsed, query, search_results, scrape_calls>>

\* _extract_with_strategy is called on a page of the model.
InitExtract ==
    /\ StoreIdle
    /\ page \in ExtractPages
    /\ criteria \in {None, Some(<< [key |-> <<"price">>, unit |-> ""],
                                    [key |-> <<"weight">>, unit |-> "kg"],
                                    [key |-> <<"colour">>, unit |-> ""] >>)}
    /\ dpc = "idle"
    /\ dcand = 0
    /\ discovered = None
    /\ xstrategy \in {Some(StrategyCss), Some(StrategyFull),
                      Some([StrategyFull EXCEPT !.name_selector = ""])}
    /\ base_url \in {Some(u) : u \in Urls}
    /\ xproducts = None
    /\ results = <<>>
    /\ merged = None
    /\ LateIdle

SpecExtract == InitExtract /\ [][ExtractWithStrategy]_vars

----------------------------------------------------------------------------
(* aggregate_sellers, run to completion *)

\* _extract_domain of the results processor; "" for no url.
_extract_domain(link) ==
    IF link = None THEN <<>> ELSE extract_domain(link[1])

\* Collapsed is re.sub(r"\s+", " ", text).
_normalize_name(name) ==
    LET text == Strip(Lower(name))
        Collapsed[i \in 0..Len(text)] ==
            IF i = 0 THEN <<>>
            ELSE LET prev == Collapsed[i - 1] IN
                 IF text[i] \notin Whitespace THEN Append(prev, text[i])
                 ELSE IF i > 1 /\ text[i - 1] \in Whitespace THEN prev
                 ELSE Append(prev, " ")
    IN  Strip(SelectSeq(Collapsed[Len(text)],
                        LAMBDA c : c \in WordChars \cup Whitespace))

\* set(text.split())
Tokens(text) ==
    { SubSeq(text, i, j) : i \in 1..Len(text), j \in 1..Len(text) } \cap
    { SubSeq(text, ij[1], ij[2]) :
        ij \in { x \in (1..Len(text)) \X (1..Len(text)) :
                   /\ x[1] <= x[2]
                   /\ \A m \in x[1]..x[2] : text[m] \notin Whitespace
                   /\ x[1] = 1 \/ text[x[1] - 1] \in Whitespace
                   /\ x[2] = Len(text) \/ text[x[2] + 1] \in Whitespace } }

_names_match(a, b) ==
    LET norm_a == _normalize_name(a)
        norm_b == _normalize_name(b)
        tokens_a == Tokens(norm_a)
        tokens_b == Tokens(norm_b)
        a_shorter == Cardinality(tokens_a) <= Cardinality(tokens_b)
        shorter == IF a_shorter THEN tokens_a ELSE tokens_b
        longer == IF a_shorter THEN tokens_b ELSE tokens_a
        overlap == Cardinality(shorter \cap longer)
    IN  IF norm_a = norm_b THEN TRUE
        ELSE IF tokens_a = {} \/ tokens_b = {} THEN FALSE
        ELSE IF Cardinality(shorter) < 2 THEN FALSE
        ELSE 10 * overlap >= 6 * Cardinality(shorter)

\* A first pass that takes no model_id for a hash.
IsHashIdNever(mid) == FALSE

\* re.fullmatch(r"[0-9a-f]{12}", mid)
IsHashId(mid) ==
    /\ Len(mid) = 12
    /\ \A i \in 1..12 : \E k \in 1..16 : HexChars[k] = mid[i]

\* The sellers of the members, in order, whose (domain, price) was not
\* seen before.
Unseen(members) ==
    LET All[i \in 0..Len(members)] ==
            IF i = 0 THEN <<>> ELSE All[i - 1] \o members[i].sellers
        sellers == All[Len(members)]
        Key(x) == <<_extract_domain(x.url), x.price>>
        F[i \in 0..Len(sellers)] ==
            IF i = 0 THEN <<>>
            ELSE LET prev == F[i - 1] IN
                 IF \E k \in 1..Len(prev) : Key(prev[k]) = Key(sellers[i])
                   THEN prev ELSE Append(prev, sellers[i])
    IN  F[Len(sellers)]

\* SortByPrice that leaves the sellers as they come.
SortByPriceNot(sellers) == sellers

\* list.sort(key=lambda s: (s.price is None, s.price or 0)): stable, the
\* keys compared as tuples.
SortByPrice(sellers) ==
    LET KeyLeq(x, y) ==
            LET kx == IF x.price = None THEN <<1, 0>> ELSE <<0, x.price[1]>>
                ky == IF y.price = None THEN <<1, 0>> ELSE <<0, y.price[1]>>
            IN  kx[1] < ky[1] \/ (kx[1] = ky[1] /\ kx[2] <= ky[2])
        F[i \in 0..Len(sellers)] ==
            IF i = 0 THEN <<>>
            ELSE LET prev == F[i - 1]
                     at == Cardinality({k \in 1..Len(prev) :
                                          KeyLeq(prev[k], sellers[i])})
                 IN  SubSeq(prev, 1, at) \o <<sellers[i]>>
                        \o SubSeq(prev, at + 1, Len(prev))
    IN  F[Len(sellers)]

\* `not x` of an optional text or url.
Falsy(x) == x = None \/ x[1] = <<>>

\* The first value that is not falsy, the base's when there is none.
FirstTruthy(values) ==
    IF \E i \in 1..Len(values) : ~Falsy(values[i])
      THEN values[CHOOSE i \in 1..Len(values) :
                     /\ ~Falsy(values[i])
                     /\ \A j \in 1..(i - 1) : Falsy(values[j])]
      ELSE values[1]

\* dict(base.criteria), then the pairs of every product whose key is new
\* and whose value is not empty.
MergedCriteria(members) ==
    LET Add(data, pairs) ==
            LET G[k \in 0..Len(pairs)] ==
                    IF k = 0 THEN data
                    ELSE LET prev == G[k - 1] IN
                         IF ~HasKey(prev, pairs[k][1]) /\ pairs[k][2] # <<>>
                           THEN Append(prev, pairs[k]) ELSE prev
            IN  G[Len(pairs)]
        F[i \in 0..Len(members)] ==
            IF i = 0 THEN members[1].criteria
            ELSE Add(F[i - 1], members[i].criteria)
    IN  F[Len(members)]

_merge_group(members) ==
    IF Len(members) = 1 THEN members[1]
    ELSE [name      |-> members[1].name,
          model_id  |-> members[1].model_id,
          brand     |-> FirstTruthy([i \in 1..Len(members) |-> members[i].brand]),
          image_url |-> FirstTruthy([i \in 1..Len(members) |->
                                        members[i].image_url]),
          criteria  |-> MergedCriteria(members),
          sellers   |-> SortByPrice(Unseen(members))]

\* The product goes to the groups by model_id.
Keyed(product) ==
    /\ product.model_id # None
    /\ product.model_id[1] # <<>>
    /\ ~IsHashId(product.model_id[1])

\* The groups are the positions of their members in the argument: the
\* groups by model_id in the order of their first members, then the
\* groups by name.  A product joins the first group whose first member
\* Joins(product, first member) accepts, or starts a group.
aggregate_sellers(rs) ==
    LET Grouped(Member(_), Joins(_, _)) ==
            LET F[i \in 0..Len(rs)] ==
                    IF i = 0 THEN <<>>
                    ELSE LET prev == F[i - 1]
                             fits == {g \in 1..Len(prev) :
                                        Joins(rs[i], rs[prev[g][1]])}
                         IN  IF ~Member(rs[i]) THEN prev
                             ELSE IF fits = {} THEN Append(prev, <<i>>)
                             ELSE LET g == CHOOSE a \in fits :
                                                \A b \in fits : a <= b
                                  IN  [prev EXCEPT ![g] = Append(@, i)]
            IN  F[Len(rs)]
        NotKeyed(x) == ~Keyed(x)
        SameId(x, y) == x.model_id = y.model_id
        SameName(x, y) == _names_match(x.name, y.name)
        groups == Grouped(Keyed, SameId) \o Grouped(NotKeyed, SameName)
    IN  [groups   |-> groups,
         products |-> [g \in 1..Len(groups) |->
                         _merge_group([k \in 1..Len(groups[g]) |->
                                          rs[groups[g][k]]])]]

\* Sellers and records as extraction builds them.
ShopA == CHOOSE u \in Urls : u.host = <<"shop", "example", "com">>
ShopB == CHOOSE u \in Urls : u.host = <<"ksp", "co", "il">>
Offer(u, price) ==
    [name |-> extract_domain(u), price |-> Some(price), currency |-> "USD",
     url |-> Some(u)]
Rec(name, mid, seller) ==
    [name |-> name, model_id |-> mid, brand |-> None, image_url |-> None,
     criteria |-> <<>>, sellers |-> <<seller>>]

\* A record whose page had no part number: model_id is the placeholder.
Hashed(name, seller) == Rec(name, Some(Md5Hex12(Strip(Lower(name)))), seller)

\* A record whose model_id is the text of the page's part-number element.
WithMpn(name, mpn, seller) == Rec(name, Some(mpn), seller)

\* A placeholder that two names share.
SomeHash == <<"0", "a", "1", "b", "2", "c", "3", "d", "4", "e", "5", "f">>

\* Records with a part number: two sites give "M-1", two give a part
\* number of twelve digits.
MpnRecords ==
    LET Upc == <<"1", "2", "3", "4", "5", "6", "7", "8", "9", "0", "1", "2">> IN
    { WithMpn(<<"x", " ", "y">>, MpnText(1), Offer(ShopA, 50000)),
      WithMpn(<<"z", " ", "w">>, MpnText(1), Offer(ShopB, 60000)),
      WithMpn(<<"x", " ", "y">>, Upc, Offer(ShopA, 50000)),
      WithMpn(<<"z", " ", "w">>, Upc, Offer(ShopB, 60000)) }

\* The arguments of aggregate_sellers: the records with a part number,
\* records with the placeholder of their name, and records as a caller of
\* the aggregate tool can pass them: without a model_id, and two names with
\* one placeholder.
AggregateInputs ==
    MpnRecords \cup
    { Hashed(<<"a", " ", "b", " ", "c", " ", "d">>, Offer(ShopA, 10000)),
      Hashed(<<"a", " ", "b">>, Offer(ShopB, 20000)),
      Hashed(<<"c", " ", "d">>, Offer(ShopA, 30000)),
      Hashed(<<"t", "!">>, Offer(ShopA, 40000)),
      Hashed(<<"a", " ", "b", " ", "c", " ", "d", " ", "e">>,
             Offer(ShopA, 90000)),
      Hashed(<<"A", " ", "b", "\t", " ", "c", " ", "-", "x", " ", "y">>,
             Offer(ShopB, 95000)),
      Rec(<<"T">>, None, Offer(ShopB, 40000)),
      Rec(<<"x", " ", "y">>, Some(SomeHash), Offer(ShopA, 70000)),
      Rec(<<"z", " ", "w">>, Some(SomeHash), Offer(ShopB, 80000)) }

\* Records of one product ("x y", no model_id) as the sites and the callers
\* of the aggregate tool give them: a seller whose link could not be read
\* (no url), with or without a price; a criterion without a value; an
\* empty brand; a record that already lists two sellers; and the same
\* shop under its www host.
MergeInputs ==
    LET xy == <<"x", " ", "y">>
        NoUrl(seller) == [seller EXCEPT !.url = None]
        NoPrice(seller) == [seller EXCEPT !.price = None]
        Www == CHOOSE u \in Urls : u.host = <<"www", "shop", "example", "com">>
    IN  { [Rec(xy, None, NoUrl(Offer(ShopA, 10000)))
             EXCEPT !.criteria = << <<"color", <<>>>> >>],
          [Rec(xy, None, NoUrl(Offer(ShopB, 10000)))
             EXCEPT !.brand = Some(BrandText),
                    !.image_url = Some(Src(1)),
                    !.criteria = << <<"color", <<"r", "e", "d">>>> >>],
          [Rec(xy, None, NoPrice(NoUrl(Offer(ShopB, 0))))
             EXCEPT !.brand = Some(<<>>),
                    !.criteria = << <<"color", <<"b", "l", "u", "e">>>>,
                                    <<"size", <<"L">>>> >>],
          Rec(xy, None, NoPrice(NoUrl(Offer(ShopA, 0)))),
          [Rec(xy, None, Offer(ShopB, 20000))
             EXCEPT !.sellers = <<Offer(ShopB, 20000), Offer(ShopA, 10000)>>],
          Rec(xy, None, Offer(Www, 10000)) }

\* merged = aggregate_sellers(results)
Aggregate ==
    /\ merged = None
    /\ merged' = Some(aggregate_sellers(results))
    /\ UNCHANGED <<coreVars, page, criteria, dpc, dcand, discovered,
                   xstrategy, base_url, xproducts, results, formatted, ptext,
                   parsed, query, search_results, scrape_calls>>

InitAggregate ==
    /\ StoreIdle
    /\ page = <<>>
    /\ criteria = None
    /\ dpc = "idle"
    /\ dcand = 0
    /\ discovered = None
    /\ xstrategy = None
    /\ base_url = None
    /\ xproducts = None
    /\ results \in UNION { [1..n -> AggregateInputs] \cup [1..n -> MergeInputs] :
                            n \in 0..MaxResults }
    /\ merged = None
    /\ LateIdle

SpecAggregate == InitAggregate /\ [][Aggregate]_vars

----------------------------------------------------------------------------
(* format_results (results_processor_mcp/processor.py) *)

_MAX_RESULTS == 20

\* The sort key (has_no_price, price): the price is that of the first seller
\* that has one.
_best_price(product) ==
    LET priced == {i \in 1..Len(product.sellers) :
                     product.sellers[i].price # None}
    IN  IF priced = {} THEN <<1, 0>>
        ELSE <<0, product.sellers[CHOOSE i \in priced :
                                    \A j \in priced : i <= j].price[1]>>

\* min(prices), or None.
_best_price_value(product) ==
    LET prices == {product.sellers[i].price[1] :
                     i \in {k \in 1..Len(product.sellers) :
                              product.sellers[k].price # None}}
    IN  IF prices = {} THEN None
        ELSE Some(CHOOSE x \in prices : \A y \in prices : x <= y)

\* The currency of the first seller that has a price, "USD" without one.
_best_currency(product) ==
    LET priced == {i \in 1..Len(product.sellers) :
                     product.sellers[i].price # None}
    IN  IF priced = {} THEN "USD"
        ELSE product.sellers[CHOOSE i \in priced :
                               \A j \in priced : i <= j].currency

\* The records of the model carry no category: the first component of the
\* multi_product key is "" for all of them.  Texts compare as Python
\* strings do; list.sort is stable.
format_results(rs, format_type) ==
    LET DomainsOf(product) ==
            {d \in {IF _extract_domain(product.sellers[i].url) # <<>>
                      THEN _extract_domain(product.sellers[i].url)
                      ELSE product.sellers[i].name :
                    i \in 1..Len(product.sellers)} : d # <<>>}
        capped == SubSeq(rs, 1, IF Len(rs) < _MAX_RESULTS THEN Len(rs)
                                ELSE _MAX_RESULTS)
        Alphabet == UpperCase \o LowerCase
        Ord(c) == CHOOSE k \in 1..Len(Alphabet) : Alphabet[k] = c
        TextLess(a, b) ==
            \E i \in 1..Len(b) :
                /\ i - 1 <= Len(a)
                /\ SubSeq(a, 1, i - 1) = SubSeq(b, 1, i - 1)
                /\ \/ i = Len(a) + 1
                   \/ i <= Len(a) /\ Ord(a[i]) < Ord(b[i])
        PairLeq(x, y) == x[1] < y[1] \/ (x[1] = y[1] /\ x[2] <= y[2])
        BrandOf(product) ==
            IF product.brand = None THEN <<>> ELSE product.brand[1]
        KeyLeq(x, y) ==
            IF format_type = "multi_product"
              THEN \/ TextLess(BrandOf(x), BrandOf(y))
                   \/ /\ BrandOf(x) = BrandOf(y)
                      /\ PairLeq(_best_price(x), _best_price(y))
              ELSE PairLeq(_best_price(x), _best_price(y))
        Sorted[i \in 0..Len(capped)] ==
            IF i = 0 THEN <<>>
            ELSE LET prev == Sorted[i - 1]
                     at == Cardinality({k \in 1..Len(prev) :
                                          KeyLeq(prev[k], capped[i])})
                 IN  SubSeq(prev, 1, at) \o <<capped[i]>>
                        \o SubSeq(prev, at + 1, Len(prev))
        sorted == Sorted[Len(capped)]
    IN  [products |->
            [i \in 1..Len(sorted) |->
                [product       |-> sorted[i],
                 source_count  |-> Cardinality(DomainsOf(sorted[i])),
                 best_price    |-> _best_price_value(sorted[i]),
                 best_currency |-> _best_currency(sorted[i])]],
         total_count     |-> Len(rs),
         displayed_count |-> Len(capped),
         source_count    |-> Cardinality(UNION {DomainsOf(rs[i]) :
                                                  i \in 1..Len(rs)}),
         format_type     |-> format_type]

\* Records as a caller of the format tool can pass them: of one seller, of
\* two sellers in two currencies, the dearer first, of a seller without a
\* price, and of a priced and an unpriced seller.
FormatRecords ==
    LET xy == <<"x", " ", "y">>
        zw == <<"z", " ", "w">>
        InShekel(seller) == [seller EXCEPT !.currency = "ILS"]
        Unpriced(seller) == [seller EXCEPT !.price = None]
    IN  { Rec(xy, None, Offer(ShopA, 10000)),
          [Rec(zw, None, Offer(ShopB, 15000)) EXCEPT
              !.brand = Some(<<"B", "o", "s", "c", "h">>)],
          [Rec(xy, None, Offer(ShopA, 20000)) EXCEPT
              !.brand = Some(BrandText),
              !.sellers = <<Offer(ShopA, 20000), InShekel(Offer(ShopB, 5000))>>],
          Rec(zw, None, Unpriced(InShekel(Offer(ShopB, 0)))),
          [Rec(xy, None, Offer(ShopA, 30000)) EXCEPT
              !.brand = Some(<<"A", "c">>),
              !.sellers = <<Unpriced(Offer(ShopB, 0)), Offer(ShopA, 30000)>>] }

\* The arguments of format_results: short lists of those records, and
\* lists of _MAX_RESULTS and of _MAX_RESULTS + 1 records of one seller, the
\* cheaper one at one place.
FormatInputs ==
    UNION { [1..n -> FormatRecords] : n \in 0..MaxResults }
    \cup { [i \in 1..n |->
              IF i = k THEN Rec(<<"x", " ", "y">>, None, Offer(ShopA, 10000))
              ELSE Rec(<<"z", " ", "w">>, None, Offer(ShopB, 15000))] :
           n \in {_MAX_RESULTS, _MAX_RESULTS + 1}, k \in 1..(_MAX_RESULTS + 1) }

\* formatted = format_results(results, format_type)
Format ==
    /\ formatted = None
    /\ \E format_type \in {"single_product", "multi_product",
                           "price_comparison", "matched_set"} :
          formatted' = Some(format_results(results, format_type))
    /\ UNCHANGED <<coreVars, page, criteria, dpc, dcand, discovered,
                   xstrategy, base_url, xproducts, results, merged, ptext,
                   parsed, query, search_results, scrape_calls>>

InitFormat ==
    /\ StoreIdle
    /\ page = <<>>
    /\ criteria = None
    /\ dpc = "idle"
    /\ dcand = 0
    /\ discovered = None
    /\ xstrategy = None
    /\ base_url = None
    /\ xproducts = None
    /\ results \in FormatInputs
    /\ merged = None
    /\ LateIdle

SpecFormat == InitFormat /\ [][Format]_vars

----------------------------------------------------------------------------
(* parse_price on its own (web_scraper_mcp/scraper.py) *)

\* The arguments of parse_price: the texts of at most MaxPriceLen characters
\* made of two digits, the separators, two currency symbols and a letter.
PriceTexts ==
    UNION { [1..n -> {"1", "5", ".", ",", "$", Euro, "x"}] :
            n \in 0..MaxPriceLen }

\* parsed = parse_price(ptext)
ParsePrice ==
    /\ parsed = None
    /\ parsed' = Some(parse_price(ptext))
    /\ UNCHANGED <<coreVars, page, criteria, dpc, dcand, discovered,
                   xstrategy, base_url, xproducts, results, merged,
                   formatted, ptext, query, search_results, scrape_calls>>

InitPrice ==
    /\ StoreIdle
    /\ page = <<>>
    /\ criteria = None
    /\ dpc = "idle"
    /\ dcand = 0
    /\ discovered = None
    /\ xstrategy = None
    /\ base_url = None
    /\ xproducts = None
    /\ results = <<>>
    /\ merged = None
    /\ formatted = None
    /\ ptext \in PriceTexts
    /\ parsed = None
    /\ query = <<>>
    /\ search_results = <<>>
    /\ scrape_calls = None

SpecPrice == InitPrice /\ [][ParsePrice]_vars

----------------------------------------------------------------------------
(* MainAgent.process_query (agents/main_agent.py) *)

_MAX_SITES_TO_SCRAPE == 5

\* The keywords "fridge", "oven" and "tv" of _CATEGORY_KEYWORDS, the longer
\* first; `keyword in text` is a search for a substring.
extract_category(q) ==
    LET text == Strip(Lower(q))
        keywords == << <<<<"f", "r", "i", "d", "g", "e">>, "refrigerator">>,
                       <<<<"o", "v", "e", "n">>, "oven">>,
                       <<<<"t", "v">>, "tv">> >>
        found == {k \in 1..Len(keywords) : Has(text, keywords[k][1])}
    IN  IF found = {} THEN None
        ELSE Some(keywords[CHOOSE k \in found : \A j \in found : k <= j][2])

\* process_query up to the end of step 5.  A search result carries what
\* detect_ecommerce finds of it (is_ecommerce, confidence); criteria is the
\* local of step 2, {} without a category; each call of scrape_page is
\* recorded with the arguments it is made with: `criteria` is not among
\* them (line 265), so the parameter has its default, None.  Steps 6 to 8
\* work on what the calls return.
ProcessQuery ==
    /\ scrape_calls = None
    /\ LET category == extract_category(query)
           catalog == [c \in {"refrigerator", "oven", "tv"} |->
                          {"noise_level", "capacity"}]
           get_criteria == IF category = None THEN {} ELSE catalog[category[1]]
           shops == SelectSeq(search_results, LAMBDA r : r.is_ecommerce)
           Sorted[i \in 0..Len(shops)] ==
               IF i = 0 THEN <<>>
               ELSE LET prev == Sorted[i - 1]
                        at == Cardinality({k \in 1..Len(prev) :
                                  prev[k].confidence >= shops[i].confidence})
                    IN  SubSeq(prev, 1, at) \o <<shops[i]>>
                           \o SubSeq(prev, at + 1, Len(prev))
           ecommerce_signals == Sorted[Len(shops)]
           sites_to_scrape ==
               SubSeq(ecommerce_signals, 1,
                      IF Len(ecommerce_signals) < _MAX_SITES_TO_SCRAPE
                        THEN Len(ecommerce_signals) ELSE _MAX_SITES_TO_SCRAPE)
       IN  scrape_calls' =
               Some([i \in 1..Len(sites_to_scrape) |->
                       [url           |-> sites_to_scrape[i].url,
                        product_query |-> query,
                        criteria      |-> None]])
    /\ UNCHANGED <<coreVars, page, criteria, dpc, dcand, discovered,
                   xstrategy, base_url, xproducts, results, merged,
                   formatted, ptext, parsed, query, search_results>>

\* process_query is called with a query of the model, and search_products
\* returns up to two results, or _MAX_SITES_TO_SCRAPE + 1 shops.
InitAgent ==
    /\ StoreIdle
    /\ page = <<>>
    /\ criteria = None
    /\ dpc = "idle"
    /\ dcand = 0
    /\ discovered = None
    /\ xstrategy = None
    /\ base_url = None
    /\ xproducts = None
    /\ results = <<>>
    /\ merged = None
    /\ formatted = None
    /\ ptext = <<>>
    /\ parsed = None
    /\ query \in { <<>>, <<"s", "o", "f", "a">>, <<"F", "r", "i", "d", "g", "e", " ">>,
                   <<"w", "o", "v", "e", "n">>, <<"t", "v", " ", "o", "v", "e", "n">> }
    /\ search_results \in
          UNION { [1..n -> [url : Urls, is_ecommerce : BOOLEAN,
                            confidence : {1, 2}]] : n \in 0..2 }
          \cup { [i \in 1..(_MAX_SITES_TO_SCRAPE + 1) |->
                    [url |-> u, is_ecommerce |-> TRUE, confidence |-> 1]] :
                 u \in Urls }
    /\ scrape_calls = None

SpecAgent == InitAgent /\ [][ProcessQuery]_vars

----------------------------------------------------------------------------
(* Properties of the strategy store, checked under SpecStore *)

RowsOf(d) == {r \in table : r.domain = d}

\* The row of d is older than 30 days.
TooOld(r) == now - r.created_at > 30

\* The rate of the row is below 0.5.
BelowHalf(r) == 2 * r.success_rate < Scale

\* What load(d) has to answer in the current state.
C1_Answer(d, got) ==
    /\ got = None <=>
          \/ RowsOf(d) = {}
          \/ \E r \in RowsOf(d) : BelowHalf(r) \/ TooOld(r)
    /\ got # None => got = lastSaved[d]

C1_LoadState ==
    \A d \in Domains : C1_Answer(d, get_cached_strategy(table, d, now))

C1_LoadStep ==
    lastOp'.op = "load" /\ Load(lastOp'.domain)
        => C1_Answer(lastOp'.domain, lastOp'.result)

NoRowDeleted ==
    \A r \in table : \E r2 \in table' : r2.id = r.id /\ r2.domain = r.domain

\* C1: load(domain) is absent exactly when the domain has no row, or the
\* row's success_rate is below 0.5, or the row is older than 30 days, and
\* otherwise it is the stored (last saved) strategy; no step deletes a row.
C1_LoadAbsentExactly ==
    []C1_LoadState /\ [][C1_LoadStep /\ NoRowDeleted]_vars

\* load answered absent for a domain whose row exists, is young enough and
\* has a rate below 0.5.
C1_Witness ==
    /\ lastOp.op = "load"
    /\ lastOp.result = None
    /\ \E r \in RowsOf(lastOp.domain) : BelowHalf(r) /\ ~TooOld(r)

\* C3: after save(domain, s) exactly one row exists for the domain, the
\* stored strategy is s in every field, the rate is 1.0, and load returns s
\* when the previous row was evicted for its rate (young, rate below 0.5).
C3_SaveSupersedes ==
    lastOp.op = "save" =>
        LET d == lastOp.domain
            s == lastOp.strategy[1]
        IN  /\ Cardinality(RowsOf(d)) = 1
            /\ \A r \in RowsOf(d) :
                  /\ r.success_rate = Scale
                  /\ from_json(r.strategy_json) = s
            /\ (/\ lastOp.before # None
                /\ 2 * lastOp.before[1].success_rate < Scale
                /\ now - lastOp.before[1].created_at <= 30)
                  => get_cached_strategy(table, d, now) = Some(s)

\* save replaced a strategy that was evicted for its rate by another one.
C3_Witness ==
    /\ lastOp.op = "save"
    /\ lastOp.before # None
    /\ 2 * lastOp.before[1].success_rate < Scale
    /\ now - lastOp.before[1].created_at <= 30
    /\ from_json(lastOp.before[1].strategy_json) # lastOp.strategy[1]
    /\ get_cached_strategy(table, lastOp.domain, now) = lastOp.strategy

\* C4: save(domain, s) refreshes created_at, so that load(domain) returns s
\* right after any save, also of a row older than the TTL.
C4_SaveRefreshesCreatedAt ==
    [][\A d \in Domains, s \in Strategies :
          Save(d, s) => get_cached_strategy(table', d, now') = Some(s)]_vars

\* C5: record_outcome on a domain without a row changes nothing; on a domain
\* with a row it sets the rate to 0.3*outcome + 0.7*rate and leaves the
\* strategy, created_at and every other row as they were.
C5_RecordOutcomeFrame ==
    [][\A d \in Domains, success \in BOOLEAN :
          RecordOutcome(d, success) =>
              IF \A r \in table : r.domain # d
                THEN table' = table
                ELSE /\ {r.id : r \in table'} = {r.id : r \in table}
                     /\ \A r \in table : \E r2 \in table' :
                          /\ r2.id = r.id
                          /\ r2.domain = r.domain
                          /\ r2.strategy_json = r.strategy_json
                          /\ r2.created_at = r.created_at
                          /\ IF r.domain = d
                               THEN 10 * r2.success_rate =
                                      3 * (IF success THEN Scale ELSE 0)
                                        + 7 * r.success_rate
                               ELSE r2 = r]_vars

\* record_outcome(success) acted on a row whose rate was 0.7 after one
\* failure.
C5_Witness ==
    /\ lastOp.op = "record_outcome"
    /\ lastOp.success
    /\ outcomes[lastOp.domain] = <<FALSE, TRUE>>
    /\ \E r \in RowsOf(lastOp.domain) : 100 * r.success_rate = 79 * Scale

\* C6: three failures in a row after a save bring the rate below 0.5 and
\* load reports absent although the row exists; one failure followed by one
\* success keeps the rate at or above 0.5, so that load returns the strategy
\* of a row within the TTL.
C6_ThreeFailuresEvict ==
    \A d \in Domains :
        /\ outcomes[d] = <<FALSE, FALSE, FALSE>> =>
              /\ RowsOf(d) # {}
              /\ \A r \in RowsOf(d) : 2 * r.success_rate < Scale
              /\ get_cached_strategy(table, d, now) = None
        /\ outcomes[d] = <<FALSE, TRUE>> =>
              /\ \A r \in RowsOf(d) : 2 * r.success_rate >= Scale
              /\ (\A r \in RowsOf(d) : now - r.created_at <= 30)
                    => get_cached_strategy(table, d, now) = lastSaved[d]
                         /\ lastSaved[d] # None

\* The third failure in a row was recorded for a row within its TTL.
C6_Witness ==
    /\ lastOp.op = "record_outcome"
    /\ outcomes[lastOp.domain] = <<FALSE, FALSE, FALSE>>
    /\ \E r \in RowsOf(lastOp.domain) :
          1000 * r.success_rate = 343 * Scale /\ now - r.created_at <= 30

----------------------------------------------------------------------------
(* Properties of scrape_page, checked under Spec *)

Returned == pc[Caller] = "done"
L == log[Caller]
Dom == extract_domain(url[Caller])

EvGoto(ok) == Event("goto", None, ok, 0)
EvWait(ok) == Event("wait_idle", None, ok, 0)
EvLoad == Event("load", None, FALSE, 0)
EvExtract(s, n) == Event("extract", s, FALSE, n)
EvUpdate(success) == Event("update_success_rate", None, success, 0)
EvDiscover == Event("discover_strategy", None, FALSE, 0)
EvSave(s) == Event("save_strategy", s, FALSE, 0)

\* The first extraction of the scrape used the loaded strategy and returned
\* n records.
CachedExtraction(n) ==
    /\ cached[Caller] # None
    /\ \E i \in 1..Len(L) :
          /\ L[i] = EvExtract(cached[Caller], n)
          /\ \A j \in 1..(i - 1) : L[j].call # "extract"

\* The rows of tbl without their rates and update times.
Stored(tbl) == {<<r.id, r.domain, r.strategy_json, r.created_at>> : r \in tbl}

\* C2: when the loaded strategy extracts nothing, scrape records one
\* failure, then runs one discovery, and when that returns a strategy saves
\* it, extracts with it and returns the records of that extraction; the
\* loaded strategy is used for one extraction only.
C2_StaleRediscovery ==
    Returned /\ CachedExtraction(0) =>
        /\ ~raised[Caller]
        /\ \E ok \in BOOLEAN :
              LET head == <<EvGoto(TRUE), EvWait(ok), EvLoad,
                            EvExtract(cached[Caller], 0), EvUpdate(FALSE),
                            EvDiscover>>
              IN  IF strategy[Caller] = None
                    THEN /\ L = head
                         /\ result[Caller] = <<>>
                         /\ \A r \in RowsOf(Dom) : \E r0 \in startTable[Caller] :
                               /\ r0.id = r.id
                               /\ 10 * r.success_rate = 7 * r0.success_rate
                    ELSE /\ L = head \o
                                <<EvSave(strategy[Caller]),
                                  EvExtract(strategy[Caller],
                                            Len(result[Caller]))>>
                         /\ result[Caller] =
                               Extracted(Dom, strategy[Caller][1],
                                         Len(result[Caller]), 2)
                         /\ Cardinality(RowsOf(Dom)) = 1
                         /\ \A r \in RowsOf(Dom) :
                               /\ from_json(r.strategy_json) = strategy[Caller][1]
                               /\ r.success_rate = Scale

\* A scrape whose loaded strategy extracted nothing returned the records it
\* extracted with another, newly discovered strategy.
C2_Witness ==
    /\ Returned
    /\ CachedExtraction(0)
    /\ strategy[Caller] # None
    /\ strategy[Caller] # cached[Caller]
    /\ Len(result[Caller]) > 0

\* Every extraction of the scrape is followed, before the next one and
\* before the return, by exactly one update with the extraction's outcome.
UpdatedAfterUse(i) ==
    \E j \in (i + 1)..Len(L) :
        /\ L[j] = EvUpdate(L[i].n > 0)
        /\ \A k \in (i + 1)..Len(L) :
              /\ (k < j => L[k].call \notin {"extract", "update_success_rate"})
              /\ (k > j /\ L[k].call = "update_success_rate"
                    => \E m \in (j + 1)..(k - 1) : L[m].call = "extract")

\* C7: every extraction that scrape runs with a strategy, loaded or newly
\* discovered, is followed before scrape returns by one EMA update of the
\* domain's rate with the outcome of that extraction.
C7_RateUpdatedAfterEveryUse ==
    Returned /\ ~raised[Caller] =>
        \A i \in 1..Len(L) : L[i].call = "extract" => UpdatedAfterUse(i)

\* C8: when the loaded strategy extracts at least one record, scrape returns
\* those records, records one success, runs no discovery and no save, and
\* leaves the stored strategies as they were.
C8_CacheHit ==
    \A n \in 1..MaxRecords :
        Returned /\ CachedExtraction(n) =>
            /\ ~raised[Caller]
            /\ \E ok \in BOOLEAN :
                  L = <<EvGoto(TRUE), EvWait(ok), EvLoad,
                        EvExtract(cached[Caller], n), EvUpdate(TRUE)>>
            /\ result[Caller] = Extracted(Dom, cached[Caller][1], n, 1)
            /\ Stored(table) = Stored(startTable[Caller])
            /\ \A r \in table : \E r0 \in startTable[Caller] :
                  /\ r0.id = r.id
                  /\ IF r.domain = Dom
                       THEN 10 * r.success_rate = 3 * Scale + 7 * r0.success_rate
                       ELSE r = r0

\* A scrape returned the records of a loaded strategy whose rate was below
\* 1.0 before.
C8_Witness ==
    /\ Returned
    /\ \E n \in 1..MaxRecords : CachedExtraction(n) /\ Len(result[Caller]) = n
    /\ \E r0 \in startTable[Caller] :
          r0.domain = Dom /\ r0.success_rate < Scale

\* C9: a failed navigation makes scrape return [] after that one attempt,
\* without a call to the store; a discovery that finds nothing makes scrape
\* return [] without a save, the stored strategies being as before.
C9_FailuresAreValues ==
    /\ Returned /\ Len(L) >= 1 /\ L[1] = EvGoto(FALSE) =>
          /\ L = <<EvGoto(FALSE)>>
          /\ result[Caller] = <<>>
          /\ ~raised[Caller]
          /\ table = startTable[Caller]
    /\ Returned /\ strategy[Caller] = None
                /\ (\E i \in 1..Len(L) : L[i] = EvDiscover) =>
          /\ L[Len(L)] = EvDiscover
          /\ \A i \in 1..Len(L) : L[i].call # "save_strategy"
          /\ result[Caller] = <<>>
          /\ ~raised[Caller]
          /\ Stored(table) = Stored(startTable[Caller])

\* The navigation of a scrape failed for a domain that has a stored row.
C9_Witness ==
    /\ Returned
    /\ L = <<EvGoto(FALSE)>>
    /\ RowsOf(Dom) # {}

\* C10 as stated: a timeout of the idle-wait makes scrape return [] with no
\* extraction, discovery or store access after it, and nothing is raised.
C10_IdleTimeoutAborts ==
    Returned /\ idleTimeout[Caller] =>
        /\ L = <<EvGoto(TRUE), EvWait(FALSE)>>
        /\ result[Caller] = <<>>
        /\ ~raised[Caller]

\* C10 amended: a timeout of the idle-wait is swallowed: scrape goes on to
\* load the stored strategy and to extract or discover, nothing is raised,
\* and the result is empty only when the discovery found nothing or the last
\* extraction returned no record.
C10_IdleTimeoutSwallowed ==
    Returned /\ idleTimeout[Caller] =>
        /\ ~raised[Caller]
        /\ Len(L) >= 4
        /\ L[2] = EvWait(FALSE)
        /\ L[3] = EvLoad
        /\ L[4].call \in {"extract", "discover_strategy"}
        /\ result[Caller] = <<>> =>
              \/ L[Len(L)] = EvDiscover /\ strategy[Caller] = None
              \/ L[Len(L)] = EvExtract(strategy[Caller], 0)

\* A scrape whose idle-wait timed out returned records.
C10_Witness ==
    /\ Returned
    /\ idleTimeout[Caller]
    /\ Len(result[Caller]) > 0

----------------------------------------------------------------------------
(* Properties of scrape_page over a database with foreign texts, checked
   under SpecCorrupt *)

\* The text is not serialized strategy data, or lacks the container selector.
Corrupt(text) ==
    \/ \E i \in 1..Len(text) : Len(text[i]) # 2
    \/ ~\E i \in 1..Len(text) : text[i][1] = "product_container"

\* C11: a corrupt stored strategy is a cache miss: the load of scrape
\* returns absent, scrape goes on to discovery, and nothing is raised.
C11_CorruptIsMiss ==
    [][(/\ pc[Caller] = "load"
        /\ \E r \in RowsOf(Dom) : Corrupt(r.strategy_json)
        /\ LoadCached(Caller))
          => /\ cached'[Caller] = None
             /\ pc'[Caller] = "discover"
             /\ ~raised'[Caller]]_vars

----------------------------------------------------------------------------
(* Properties of concurrent scrapes, checked under SpecConc *)

CalledSave(p) == \E i \in 1..Len(log[p]) : log[p][i].call = "save_strategy"

\* C12: two concurrent scrapes of one domain without a stored row that both
\* discover a strategy and both call save both return a list, nothing is
\* raised, and exactly one row exists for the domain afterwards.
C12_ConcurrentSaves ==
    \A p \in Scrapes, q \in Scrapes :
        (/\ p # q
         /\ pc[p] = "done" /\ pc[q] = "done"
         /\ extract_domain(url[p]) = extract_domain(url[q])
         /\ \A r \in startTable[p] \cup startTable[q] :
               r.domain # extract_domain(url[p])
         /\ CalledSave(p) /\ CalledSave(q))
          => /\ ~raised[p] /\ ~raised[q]
             /\ Cardinality(RowsOf(extract_domain(url[p]))) = 1

----------------------------------------------------------------------------
(* Properties of discover_strategy, checked under SpecDiscover *)

\* The elements the container selector of the returned strategy matches.
Containers == QueryAll(page, discovered[1].product_container)

\* C13: the container selector of every strategy that discovery returns, by
\* the CSS candidates or by the price pattern, matched at least 2 elements
\* of the page.
C13_RepeatingPattern ==
    discovered # None =>
        /\ Containers[1] = "ok"
        /\ Len(Containers[2]) >= 2

\* The price pattern returned a strategy on a page where a CSS candidate
\* matched exactly one element, with a name in it.
C13_Witness ==
    /\ dpc = "done"
    /\ discovered # None
    /\ discovered[1].discovery_method = "price_pattern"
    /\ \E i \in 1..Len(_CONTAINER_CANDIDATES) :
          LET got == QueryAll(page, _CONTAINER_CANDIDATES[i]) IN
          /\ got[1] = "ok"
          /\ Len(got[2]) = 1
          /\ \E k \in 1..Len(_NAME_CANDIDATES) :
                Matches(got[2][1], _NAME_CANDIDATES[k])

\* The containers a discovery method probes for the name: the first 3 by
\* the CSS candidates, the first by the price pattern.
Probed(s) ==
    LET cs == QueryAll(page, s.product_container)[2] IN
    IF s.discovery_method = "css_candidates"
      THEN {cs[i] : i \in 1..(IF Len(cs) < 3 THEN Len(cs) ELSE 3)}
      ELSE {cs[i] : i \in 1..(IF Len(cs) < 1 THEN Len(cs) ELSE 1)}

\* C14: the name selector of every strategy that discovery returns, by either
\* method, matched an element inside one of the probed containers.
C14_NameMandatory ==
    discovered # None =>
        \E c \in Probed(discovered[1]) : Matches(c, discovered[1].name_selector)

\* Candidate i matches at least 2 elements and a name candidate matches in
\* one of its first 3 elements.
Accepts(i) ==
    LET got == QueryAll(page, _CONTAINER_CANDIDATES[i]) IN
    /\ got[1] = "ok"
    /\ Len(got[2]) >= 2
    /\ \E j \in 1..3, k \in 1..Len(_NAME_CANDIDATES) :
          j <= Len(got[2]) /\ Q(got[2][j], _NAME_CANDIDATES[k])[1]
                                \in {"element", "unreadable"}

\* The price-pattern fallback has nothing to return.
FallbackFails ==
    \/ page.evaluate[1] # "group"
    \/ LET cls == page.evaluate[3]
           sel == IF cls = <<>> THEN page.evaluate[2]
                  ELSE page.evaluate[2] \o "." \o Head(cls)
       IN  QueryAll(page, sel)[1] # "ok" \/ Len(QueryAll(page, sel)[2]) < 2

\* C15: discovery returns the CSS strategy of the earliest candidate, in
\* list order, that matches at least 2 elements with a name in the first 3;
\* the fallback runs only when there is no such candidate, and discovery
\* returns absent exactly when the fallback fails too.
C15_FirstSuccess ==
    /\ dpc = "fallback" => \A i \in 1..Len(_CONTAINER_CANDIDATES) : ~Accepts(i)
    /\ dpc = "done" =>
          IF \E i \in 1..Len(_CONTAINER_CANDIDATES) : Accepts(i)
            THEN /\ discovered # None
                 /\ discovered[1].discovery_method = "css_candidates"
                 /\ \E i \in 1..Len(_CONTAINER_CANDIDATES) :
                       /\ Accepts(i)
                       /\ \A j \in 1..(i - 1) : ~Accepts(j)
                       /\ discovered[1].product_container =
                              _CONTAINER_CANDIDATES[i]
            ELSE /\ discovered = None <=> FallbackFails
                 /\ discovered # None =>
                       discovered[1].discovery_method = "price_pattern"

\* Discovery returned the strategy of a later candidate although an earlier
\* one matched 4 elements, the last of them with a name.
C15_Witness ==
    /\ dpc = "done"
    /\ discovered # None
    /\ discovered[1].product_container = ".product"
    /\ LET got == QueryAll(page, ".product-card") IN
          /\ got[1] = "ok"
          /\ Len(got[2]) = 4
          /\ Matches(got[2][4], "h2 a")

----------------------------------------------------------------------------
(* Properties of _extract_with_strategy, checked under SpecExtract *)

\* The elements the container selector of the strategy matches.
XContainers ==
    LET got == QueryAll(page, xstrategy[1].product_container) IN
    IF got[1] = "ok" THEN got[2] ELSE <<>>

\* The name element of the container is there and its text has a character
\* that is not white space.
NameGood(c) ==
    LET got == Q(c, xstrategy[1].name_selector) IN
    /\ xstrategy[1].name_selector # ""
    /\ got[1] = "element"
    /\ \E i \in 1..Len(got[2]) : got[2][i] \notin {" ", "\t", "\n"}

\* The containers, among the first 50, that have a name.
GoodIdx ==
    {i \in 1..Len(XContainers) : i <= 50 /\ NameGood(XContainers[i])}

\* C16: every extracted record has a non-empty name and exactly one seller,
\* named by the page's domain; the records are those of the containers
\* whose name can be read (a container without such a name emits none);
\* and there are at most min(matched containers, 50) records.
C16_RecordsHaveNameAndSeller ==
    xproducts # None =>
        LET ps == xproducts[1] IN
        /\ \A j \in 1..Len(ps) :
              /\ ps[j].name # <<>>
              /\ Len(ps[j].sellers) = 1
              /\ ps[j].sellers[1].name = extract_domain(base_url[1])
              /\ \E i \in GoodIdx : ps[j].name = NameText(i)
        /\ \A j \in 1..Len(ps), k \in 1..Len(ps) :
              j # k => ps[j].name # ps[k].name
        /\ Len(ps) <= Len(XContainers)
        /\ Len(ps) <= 50

\* 51 containers matched, one of the first 50 had no name: 49 records.
C16_Witness ==
    /\ xproducts # None
    /\ Len(XContainers) = 51
    /\ Len(xproducts[1]) = 49

\* Reading the element under sel raised.
FieldFails(c, sel) == sel # "" /\ Q(c, sel)[1] \in {"raises", "unreadable"}

\* The record of an intact card i extracted with StrategyFull.
ExpectedFull(i) ==
    [name      |-> NameText(i),
     model_id  |-> Some(MpnText(i)),
     brand     |-> Some(BrandText),
     image_url |-> Some(Src(i)),
     criteria  |-> << <<"noise_level", <<"4", "4", " ", "d", "B">>>> >>,
     sellers   |-> << [name     |-> extract_domain(base_url[1]),
                       price    |-> Some(1000 * i + 500),
                       currency |-> "USD",
                       url      |-> Some([host |-> base_url[1].host,
                                          path |-> Href(i).path])] >>]

IsHex12(id) ==
    /\ Len(id) = 12
    /\ \A i \in 1..12 : id[i] \in {"0", "1", "2", "3", "4", "5", "6", "7", "8",
                                   "9", "a", "b", "c", "d", "e", "f"}

\* What C17 says of the fields other than the criteria, for the record r of
\* container c.
FieldsAbsent(c, r) ==
    LET s == xstrategy[1] IN
    /\ FieldFails(c, s.price_selector) => r.sellers[1].price = None
    /\ FieldFails(c, s.url_selector) => r.sellers[1].url = None
    /\ FieldFails(c, s.image_selector) => r.image_url = None
    /\ FieldFails(c, s.brand_selector) => r.brand = None
    /\ FieldFails(c, s.mpn_selector) =>
          r.model_id = None \/ IsHex12(r.model_id[1])
    /\ c.text[1] # "element" =>
          \A k \in 1..Len(r.criteria) :
              \E m \in 1..Len(s.criteria_selectors) :
                  /\ s.criteria_selectors[m][1] = r.criteria[k][1]
                  /\ Q(c, s.criteria_selectors[m][2])[1] = "element"

\* The record of the container at i.
RecordOf(i) ==
    xproducts[1][CHOOSE j \in 1..Len(xproducts[1]) :
                    xproducts[1][j].name = NameText(i)]

\* Every container with a name has its record, in which the fields that
\* failed are absent; an intact card has the record of an intact card; no
\* container, no record.
RecordsEmitted ==
    xproducts # None =>
        /\ \A i \in GoodIdx :
              /\ \E j \in 1..Len(xproducts[1]) :
                    xproducts[1][j].name = NameText(i)
              /\ FieldsAbsent(XContainers[i], RecordOf(i))
              /\ (XContainers[i] = Card(i) /\ xstrategy[1] = StrategyFull
                    /\ criteria # None)
                    => RecordOf(i) = ExpectedFull(i)
        /\ XContainers = <<>> => xproducts[1] = <<>>

\* The criteria pairs of the strategy whose element cannot be read in c.
FailedCriteria(c) ==
    {m \in 1..Len(xstrategy[1].criteria_selectors) :
        FieldFails(c, xstrategy[1].criteria_selectors[m][2])}

\* C17 as stated: a field other than the name whose read fails is absent in
\* the record, the record is emitted, the other containers are extracted
\* as if nothing had failed, and a container selector that fails or
\* matches nothing gives the empty list.
C17_FieldErrorsLeaveAbsent ==
    /\ RecordsEmitted
    /\ xproducts # None =>
          \A i \in GoodIdx : \A m \in FailedCriteria(XContainers[i]) :
              ~HasKey(RecordOf(i).criteria,
                      xstrategy[1].criteria_selectors[m][1])

\* C17 amended: as stated, but a criterion whose element cannot be read has
\* the value that the text pattern of its key finds in the container's
\* text, and is absent only when there is no pattern for the key, no
\* match, or the text cannot be read; and a part number that cannot be read
\* leaves the 12-hex placeholder as model_id.
C17_FieldErrorsFallBack ==
    /\ RecordsEmitted
    /\ xproducts # None =>
          \A i \in GoodIdx :
              /\ FieldFails(XContainers[i], xstrategy[1].mpn_selector) =>
                    /\ RecordOf(i).model_id # None
                    /\ IsHex12(RecordOf(i).model_id[1])
              /\ \A m \in FailedCriteria(XContainers[i]) :
                    IF criteria = None /\ XContainers[i].text[1] = "element"
                      THEN \E k \in 1..Len(RecordOf(i).criteria) :
                              RecordOf(i).criteria[k]
                                  = <<"noise_level", <<"4", "4", " ", "d", "B">>>>
                      ELSE RecordOf(i).criteria = <<>>

\* A record was emitted for a card whose price could not be read, next to
\* the record of an intact card.
C17_Witness ==
    /\ xproducts # None
    /\ xstrategy[1] = StrategyFull
    /\ Len(xproducts[1]) = 2
    /\ FieldFails(XContainers[1], "[class*='price']")
    /\ xproducts[1][1].sellers[1].price = None
    /\ xproducts[1][2] = ExpectedFull(2)

----------------------------------------------------------------------------
(* Properties of aggregate_sellers, checked under SpecAggregate *)

\* The records at i and j of the argument are in one output record.
SameRecord(i, j) ==
    \E g \in 1..Len(merged[1].groups) :
        /\ \E k \in 1..Len(merged[1].groups[g]) : merged[1].groups[g][k] = i
        /\ \E k \in 1..Len(merged[1].groups[g]) : merged[1].groups[g][k] = j

\* The model_id is missing or is 12 characters of 0-9a-f.
Placeholder(r) ==
    \/ r.model_id = None
    \/ /\ Len(r.model_id[1]) = 12
       /\ \A i \in 1..12 :
             r.model_id[1][i] \in {"0", "1", "2", "3", "4", "5", "6", "7",
                                   "8", "9", "a", "b", "c", "d", "e", "f"}

\* C18 as stated: two records with a placeholder (or no) model_id are in
\* the same output record only if their names fuzzy-match.
C18_PlaceholdersGroupByName ==
    merged # None =>
        \A i \in 1..Len(results), j \in 1..Len(results) :
            (Placeholder(results[i]) /\ Placeholder(results[j])
                /\ SameRecord(i, j))
            => _names_match(results[i].name, results[j].name)

\* The first member of the output record of the record at i.
FirstOf(i) ==
    CHOOSE h \in 1..Len(results) :
        SameRecord(h, i) /\ \A k \in 1..Len(results) : SameRecord(k, i) => h <= k

\* C18 amended: two records with a placeholder (or no) model_id are in the
\* same output record only if the name of each matches the name of the
\* first member of that record, never because their model_id strings are
\* equal; and no record with another model_id is in their output record.
C18_PlaceholdersGroupByFirstName ==
    merged # None =>
        \A i \in 1..Len(results), j \in 1..Len(results) :
            (Placeholder(results[i]) /\ SameRecord(i, j)) =>
                /\ Placeholder(results[j])
                /\ _names_match(results[i].name, results[FirstOf(i)].name)
                /\ _names_match(results[j].name, results[FirstOf(i)].name)

\* Two records with the same placeholder and names that do not match are
\* in two output records, and two records whose names match are in one.
C18_Witness ==
    /\ merged # None
    /\ \E i \in 1..Len(results), j \in 1..Len(results) :
          /\ results[i].model_id = Some(SomeHash)
          /\ results[j].model_id = Some(SomeHash)
          /\ results[i].name # results[j].name
          /\ ~SameRecord(i, j)
    /\ \E i \in 1..Len(results), j \in 1..Len(results) :
          /\ i # j
          /\ Placeholder(results[i])
          /\ SameRecord(i, j)

\* C19: two records whose model_id was read from the part-number element
\* and is the same text are in the same output record, whatever their
\* names.
C19_SamePartNumberMerges ==
    merged # None =>
        \A i \in 1..Len(results), j \in 1..Len(results) :
            (results[i] \in MpnRecords /\ results[j] \in MpnRecords
                /\ results[i].model_id = results[j].model_id)
            => SameRecord(i, j)

\* The words of a name: lower case, without punctuation, split at white
\* space.
WordsOf(name) ==
    LET low == Lower(name)
        kept == SelectSeq(low, LAMBDA c : c \in WordChars \cup {" ", "\t", "\n"})
        IsWord(i, j) ==
            /\ i <= j
            /\ \A m \in i..j : kept[m] \notin {" ", "\t", "\n"}
            /\ i = 1 \/ kept[i - 1] \in {" ", "\t", "\n"}
            /\ j = Len(kept) \/ kept[j + 1] \in {" ", "\t", "\n"}
    IN  {SubSeq(kept, ij[1], ij[2]) :
            ij \in {x \in (1..Len(kept)) \X (1..Len(kept)) : IsWord(x[1], x[2])}}

\* The rule of C20: both names have two words or more and three fifths of
\* the words of the shorter are words of the other.
FuzzyRule(a, b) ==
    LET wa == WordsOf(a)
        wb == WordsOf(b)
        short == IF Cardinality(wa) <= Cardinality(wb) THEN wa ELSE wb
    IN  /\ Cardinality(wa) >= 2
        /\ Cardinality(wb) >= 2
        /\ 5 * Cardinality(wa \cap wb) >= 3 * Cardinality(short)

\* C20: two names match if and only if, normalised and split into words,
\* both have at least 2 words and |common words| / |words of the shorter|
\* >= 0.6; two single-word names never match.
C20_FuzzyRule ==
    merged # None =>
        \A i \in 1..Len(results), j \in 1..Len(results) :
            i # j =>
                (_names_match(results[i].name, results[j].name)
                    <=> FuzzyRule(results[i].name, results[j].name))

\* No two of the sellers have the same (domain of the url, price), and they
\* are in ascending order of price, those without a price after the others.
DistinctAndSorted(ss) ==
    \A a \in 1..Len(ss), b \in 1..Len(ss) :
        a < b =>
            /\ ~(/\ ss[a].price = ss[b].price
                 /\ (IF ss[a].url = None THEN <<>>
                     ELSE extract_domain(ss[a].url[1]))
                    = (IF ss[b].url = None THEN <<>>
                       ELSE extract_domain(ss[b].url[1])))
            /\ ss[a].price = None => ss[b].price = None
            /\ (ss[a].price # None /\ ss[b].price # None)
                  => ss[a].price[1] <= ss[b].price[1]

\* C21 as stated: in every record returned by aggregate no two sellers have
\* the same (domain of the url, price), and the sellers are in ascending
\* order of price, the sellers without a price after all the others.
C21_SellersDistinctAndSorted ==
    merged # None =>
        \A g \in 1..Len(merged[1].products) :
            DistinctAndSorted(merged[1].products[g].sellers)

\* C21 amended: that holds of every record merged from two or more input
\* records; a record that is alone in its group is returned as it came.
C21_MergedSellersDistinctAndSorted ==
    merged # None =>
        \A g \in 1..Len(merged[1].products) :
            IF Len(merged[1].groups[g]) >= 2
              THEN DistinctAndSorted(merged[1].products[g].sellers)
              ELSE merged[1].products[g] = results[merged[1].groups[g][1]]

\* Three records were merged into one whose sellers are fewer than theirs,
\* and one of the sellers kept has no price.
C21_Witness ==
    /\ merged # None
    /\ Len(results) = 3
    /\ Len(merged[1].products) = 1
    /\ Len(merged[1].products[1].sellers) = 2
    /\ merged[1].products[1].sellers[1].price # None
    /\ merged[1].products[1].sellers[2].price = None
    /\ results[1].sellers[1].price = None

\* The members, in group order, of output record g that give key k a value.
Givers(g, k) ==
    {m \in 1..Len(merged[1].groups[g]) :
        \E c \in 1..Len(results[merged[1].groups[g][m]].criteria) :
            /\ results[merged[1].groups[g][m]].criteria[c][1] = k
            /\ results[merged[1].groups[g][m]].criteria[c][2] # <<>>}

\* C22: in a record merged from two or more members, each criteria key has
\* the first non-empty value among the members in group order, and brand
\* and image are those of the first member that has one.
C22_FirstValueWins ==
    merged # None =>
        \A g \in 1..Len(merged[1].groups) :
            LET ms == [m \in 1..Len(merged[1].groups[g]) |->
                          results[merged[1].groups[g][m]]]
                out == merged[1].products[g]
                First(S) == CHOOSE m \in S : \A n \in S : m <= n
                branded == {m \in 1..Len(ms) :
                              ms[m].brand # None /\ ms[m].brand[1] # <<>>}
                pictured == {m \in 1..Len(ms) : ms[m].image_url # None}
            IN  Len(ms) >= 2 =>
                  /\ \A k \in {"color", "size"} :
                        Givers(g, k) # {} =>
                            \E c \in 1..Len(out.criteria) :
                                /\ out.criteria[c][1] = k
                                /\ \E d \in 1..Len(ms[First(Givers(g, k))].criteria) :
                                      out.criteria[c]
                                        = ms[First(Givers(g, k))].criteria[d]
                  /\ branded # {} => out.brand = ms[First(branded)].brand
                  /\ pictured # {} => out.image_url = ms[First(pictured)].image_url

\* C30: every (seller name, price) of a seller of an input record is on a
\* seller of some output record.
C30_NoOfferLost ==
    merged # None =>
        \A i \in 1..Len(results) : \A a \in 1..Len(results[i].sellers) :
            \E g \in 1..Len(merged[1].products) :
                \E b \in 1..Len(merged[1].products[g].sellers) :
                    /\ merged[1].products[g].sellers[b].name
                         = results[i].sellers[a].name
                    /\ merged[1].products[g].sellers[b].price
                         = results[i].sellers[a].price


----------------------------------------------------------------------------
(* Properties of format_results, checked under SpecFormat *)

\* The cheapest price of a record, as a sort key: records without a priced
\* seller after all the others.
CheapestKey(product) ==
    IF _best_price_value(product) = None THEN <<1, 0>>
    ELSE <<0, _best_price_value(product)[1]>>

\* C23: format returns at most 20 products, displayed_count is
\* min(20, total_count), total_count is the number of input records, and in
\* the modes price_comparison and single_product the displayed products are
\* in ascending order of the cheapest price a seller of the record has, the
\* records without a priced seller last.
C23_CappedAndCheapestFirst ==
    formatted # None =>
        LET out == formatted[1] IN
        /\ Len(out.products) <= 20
        /\ out.total_count = Len(results)
        /\ out.displayed_count = (IF Len(results) < 20 THEN Len(results) ELSE 20)
        /\ out.format_type \in {"price_comparison", "single_product"} =>
              \A a \in 1..Len(out.products), b \in 1..Len(out.products) :
                  a < b =>
                      LET ka == CheapestKey(out.products[a].product)
                          kb == CheapestKey(out.products[b].product)
                      IN  ka[1] < kb[1] \/ (ka[1] = kb[1] /\ ka[2] <= kb[2])

\* C24: in every formatted entry best_price is the least price of the
\* record's priced sellers (null without one), and best_currency is the
\* currency of a seller that has that price.
C24_BestPairConsistent ==
    formatted # None =>
        \A e \in 1..Len(formatted[1].products) :
            LET entry == formatted[1].products[e]
                ss == entry.product.sellers
                priced == {i \in 1..Len(ss) : ss[i].price # None}
            IN  IF priced = {} THEN entry.best_price = None
                ELSE /\ entry.best_price # None
                     /\ \A i \in priced : entry.best_price[1] <= ss[i].price[1]
                     /\ \E i \in priced :
                           /\ ss[i].price = entry.best_price
                           /\ ss[i].currency = entry.best_currency

----------------------------------------------------------------------------
(* Properties of parse_price, checked under SpecPrice *)

HasDigit(text) == \E i \in 1..Len(text), k \in 1..10 : text[i] = DigitChars[k]

\* The text has at most one of the currency symbols the scraper knows.
AtMostOneSymbol(text) ==
    Cardinality({i \in 1..Len(text) :
                   text[i] \in {"$", Shekel, Euro, Pound}}) <= 1

\* The decimal points the text is read with: its commas when the last comma
\* is after every dot or (without a dot) has exactly two characters after
\* it, no point when commas are its only separators otherwise, its dots in
\* every other case.
PointsRead(text) ==
    LET seps == SelectSeq(text, LAMBDA c : c \in {".", ","} \/ HasDigit(<<c>>))
        commas == {i \in 1..Len(seps) : seps[i] = ","}
        dots == {i \in 1..Len(seps) : seps[i] = "."}
        Last(set) == CHOOSE i \in set : \A j \in set : j <= i
    IN  IF commas # {} /\ dots # {}
          THEN IF Last(commas) > Last(dots) THEN Cardinality(commas)
               ELSE Cardinality(dots)
        ELSE IF commas # {}
          THEN IF Len(seps) - Last(commas) = 2 THEN Cardinality(commas) ELSE 0
        ELSE Cardinality(dots)

\* C25 as stated: parse_price returns a number for every text that has a
\* digit and at most one recognized currency symbol, and null for every text
\* without a digit.
C25_NumberForEveryDigitText ==
    parsed # None =>
        /\ (HasDigit(ptext) /\ AtMostOneSymbol(ptext)) => parsed[1] # None
        /\ ~HasDigit(ptext) => parsed[1] = None

\* C25 amended: parse_price returns null for every text without a digit,
\* and for a text that has a digit it returns null exactly when the text is
\* read with more than one decimal point; it returns in every case.
C25_NullOnlyOnManyPoints ==
    parsed # None =>
        /\ ~HasDigit(ptext) => parsed[1] = None
        /\ HasDigit(ptext) => (parsed[1] = None <=> PointsRead(ptext) > 1)

\* A text of digits with one currency symbol was read with two decimal
\* points, and the result is null.
C25_Witness ==
    /\ parsed = Some(None)
    /\ HasDigit(ptext)
    /\ AtMostOneSymbol(ptext)
    /\ Has(ptext, <<"$">>)
    /\ PointsRead(ptext) = 2

----------------------------------------------------------------------------
(* Properties of process_query, checked under SpecAgent *)

\* C26: when a product category is recognized in the query, every call of
\* scrape_page that process_query makes carries a criteria argument that is
\* not null.
C26_CriteriaPassedToScrape ==
    (scrape_calls # None /\ extract_category(query) # None) =>
        \A i \in 1..Len(scrape_calls[1]) : scrape_calls[1][i].criteria # None

----------------------------------------------------------------------------
(* Properties of the success rate under concurrent scrapes, checked under
   SpecConc *)

\* The success_rate of the row of d, 0 when d has no row.
RateOf(tbl, d) ==
    IF SelectRecord(tbl, d) = None THEN 0
    ELSE SelectRecord(tbl, d)[1].success_rate

\* Task p commits its update_success_rate in this step.
CommitsUpdate(p) == pc[p] = "update_commit" /\ pc'[p] # "update_commit"

\* Task p commits its save_strategy in this step.
CommitsSave(p) == pc[p] = "save_commit" /\ pc'[p] # "save_commit"

\* C27: in every interleaving of concurrent scrapes of one domain, an
\* outcome changes the stored success_rate only when the extraction it is
\* the outcome of used the strategy that is saved for the domain: the
\* outcome of an extraction with a superseded strategy never changes the
\* rate of the strategy that replaced it.
C27_OutcomeOfSavedStrategy ==
    [][\A p \in Scrapes :
          (/\ CommitsUpdate(p)
           /\ RateOf(table', extract_domain(url[p]))
                # RateOf(table, extract_domain(url[p])))
            => lastSaved[extract_domain(url[p])] = cached[p]]_vars

\* C28: once load reports a domain absent because its success_rate is below
\* 0.5, load keeps reporting it absent until the next save of the domain, in
\* every interleaving: no recorded outcome lifts the rate to 0.5 or above.
C28_EvictionAbsorbing ==
    [][\A d \in Domains :
          (/\ SelectRecord(table, d) # None
           /\ ~Expired(SelectRecord(table, d)[1], now)
           /\ LowRate(SelectRecord(table, d)[1])
           /\ ~\E p \in Scrapes : CommitsSave(p) /\ extract_domain(url[p]) = d)
            => get_cached_strategy(table', d, now') = None]_vars

----------------------------------------------------------------------------
(* Eviction by failures, checked under SpecLive *)

\* load reports a strategy for the domain that is scraped.
LoadPresent ==
    get_cached_strategy(table, <<"shop", "example", "com">>, now) # None

\* C29 as stated: when every extraction on a domain yields no record, load
\* reports the domain absent after finitely many sequential scrapes, also
\* when each re-discovery returns a strategy that is saved.
C29_EvictionEventually == LoadPresent ~> ~LoadPresent

\* A strategy is saved only by a scrape whose load reported absent: the
\* discovery that follows a failed extraction finds no strategy.
NoResave == \A p \in Scrapes : pc[p] = "save_select" => cached[p] = None

\* C29 amended: when every extraction on a domain yields no record and no
\* re-discovery after a failed extraction returns a strategy, load reports
\* the domain absent after finitely many sequential scrapes.
C29_EvictionWithoutResave == ([]NoResave) => (LoadPresent ~> ~LoadPresent)

\* The saved strategy was used twice without success and without a save in
\* between, and load reports the domain absent.
C29_Witness ==
    /\ outcomes[<<"shop", "example", "com">>] = <<FALSE, FALSE>>
    /\ SelectRecord(table, <<"shop", "example", "com">>) # None
    /\ LowRate(SelectRecord(table, <<"shop", "example", "com">>)[1])
    /\ ~LoadPresent
    /\ pc[Caller] = "done"


============================================================================
